---- MODULE Spec2Model ----
\* Model of the webhook -> queue -> worker pipeline of the chat reply bot:
\* process_update (app/message_processor.py), the store it uses (app/storage.py)
\* and the generation capability (app/ai_adapter.py).
EXTENDS Integers, Sequences, FiniteSets, TLC

\* ---------------------------------------------------------------- bounds
\* Number of queue deliveries (handler invocations) in one behaviour.
MaxDeliveries == 2
\* The wall clock runs from 0 to MaxClock.
MaxClock == 1
\* How many store calls may fail with a storage error in one behaviour.
MaxStoreFailures == 1
\* Number of webhook requests in one behaviour.
MaxRequests == 2
\* Number of requests to the push endpoint in one behaviour.
MaxPushes == 3
\* Number of generate_reply calls observed on their own in one behaviour.
MaxCalls == 1
MaxStyleMessages == 3
MaxVideoFrames == 24
\* Floats (random.random(), reply_chance, model_temperature) are kept in
\* fixed point, as multiples of 1/FloatScale.
FloatScale == 10

\* ---------------------------------------------------------------- values
\* Optional[T] is a set with at most one element: {} is Python's None.
NoneVal == {}
Some(x) == {x}
IsNone(o) == o = {}
Val(o) == CHOOSE x \in o : TRUE

EmptyMap == [x \in {} |-> {}]
Put(f, k, v) == [x \in (DOMAIN f) \cup {k} |-> IF x = k THEN v ELSE f[x]]
Get_DefaultOnly(f, k, default) == default
Get(f, k, default) == IF k \in DOMAIN f THEN f[k] ELSE default

\* str: a sequence of one-character strings.  `sub in s`.
Contains(sub, s) ==
    \E i \in 1..(Len(s) - Len(sub) + 1) : SubSeq(s, i, i + Len(sub) - 1) = sub

\* ---------------------------------------------------------------- Config
ingest_chat_id == 123
reply_chat_id == 123
bot_user_id == 999
admin_user_id == 7
bot_username == <<"b", "o", "t">>
webhook_secret == "secret"

\* Compiled-in defaults (app.constants).
DEFAULT_REPLY_CHANCE == 5
DEFAULT_COOLDOWN_SECONDS == 1
DEFAULT_HISTORY_LIMIT == 2
DEFAULT_CONTEXT_MESSAGES == 1
DEFAULT_OPENAI_MAX_RETRIES == 3
DEFAULT_OPENAI_BACKOFF_SECONDS == 1
DEFAULT_MAX_REPLY_SENTENCES == 2
DEFAULT_MODEL_TEMPERATURE == 8
DEFAULT_MAX_TOKENS == 120
DEFAULT_SYSTEM_PROMPT == <<"default prompt">>

\* ---------------------------------------------------------------- inputs
\* The updates the queue can deliver (Telegram update payloads):
\* update_id -> payload.  from_id / text are Optional.
MkUpdate(mid, fid, bot, txt, cid, ctype, date) ==
    [message_id |-> mid, from_id |-> fid, is_bot |-> bot, text |-> txt,
     chat_id |-> cid, chat_type |-> ctype, date |-> date]

TextHi == <<"h", "i">>
TextQuestion == <<"h", "i", "?">>
TextMention == <<"@", "b", "o", "t">>
TextMentionQuestion == <<"@", "b", "o", "t", "?">>
TextHelp ==
    <<"/", "h", "e", "l", "p">>
TextGetConfig ==
    <<"/", "g", "e", "t", "_", "c", "o", "n", "f", "i", "g">>
TextResetConfig ==
    <<"/", "r", "e", "s", "e", "t", "_", "c", "o", "n", "f", "i", "g">>
TextSetCooldown0 ==
    <<"/", "s", "e", "t", "_", "c", "o", "o", "l", "d", "o", "w", "n", " ", "0">>
TextSetCooldownBad ==
    <<"/", "s", "e", "t", "_", "c", "o", "o", "l", "d", "o", "w", "n", " ", "a", "b", "c">>
TextSetChance0 ==
    <<"/", "s", "e", "t", "_", "r", "e", "p", "l", "y", "_", "c", "h", "a", "n", "c", "e", " ", "0">>
TextSetChanceBad ==
    <<"/", "s", "e", "t", "_", "r", "e", "p", "l", "y", "_", "c", "h", "a", "n", "c", "e", " ", "1", ".", "5">>
TextUnknownCmd ==
    <<"/", "f", "o", "o">>
TextSetCooldownAtBot ==
    <<"/", "S", "e", "t", "_", "C", "o", "o", "l", "d", "o", "w", "n", "@", "B", "O", "T", " ", " ", "2">>
TextSetCooldownAtOther ==
    <<"/", "s", "e", "t", "_", "c", "o", "o", "l", "d", "o", "w", "n", "@", "b", "o", "b", " ", "2">>
TextSetMaxTokens5 ==
    <<"/", "s", "e", "t", "_", "m", "a", "x", "_", "t", "o", "k", "e", "n", "s", " ", "5">>
TextSetSentences1 ==
    <<"/", "s", "e", "t", "_", "m", "a", "x", "_", "r", "e", "p", "l", "y", "_", "s", "e", "n", "t", "e", "n", "c", "e", "s", " ", "1">>
TextSetPrompt ==
    <<"/", "s", "e", "t", "_", "s", "y", "s", "t", "e", "m", "_", "p", "r", "o", "m", "p", "t", " ", "b", "e", " ", "k", "i", "n", "d">>
TextSetTemperature ==
    <<"/", "s", "e", "t", "_", "m", "o", "d", "e", "l", "_", "t", "e", "m", "p", "e", "r", "a", "t", "u", "r", "e", " ", "0", ".", "3">>
TextSetChanceHalf ==
    <<"/", "s", "e", "t", "_", "r", "e", "p", "l", "y", "_", "c", "h", "a", "n", "c", "e", " ", "0", ".", "5">>
TextSetPromptEmpty ==
    <<"/", "s", "e", "t", "_", "s", "y", "s", "t", "e", "m", "_", "p", "r", "o", "m", "p", "t">>
TextSetCooldownNeg ==
    <<"/", "s", "e", "t", "_", "c", "o", "o", "l", "d", "o", "w", "n", " ", "-", "1">>
TextSetMaxTokens0 ==
    <<"/", "s", "e", "t", "_", "m", "a", "x", "_", "t", "o", "k", "e", "n", "s", " ", "0">>

Updates ==
    <<MkUpdate(51, Some(10), FALSE, Some(TextQuestion), 123, "group", 0),
      MkUpdate(52, Some(11), FALSE, Some(TextHi), 123, "group", 1),
      MkUpdate(53, Some(20), TRUE, Some(TextQuestion), 123, "group", 1),
      MkUpdate(54, Some(999), FALSE, Some(TextMentionQuestion), 123, "group", 2),
      MkUpdate(55, NoneVal, FALSE, Some(TextQuestion), 123, "group", 2),
      MkUpdate(56, Some(12), FALSE, Some(TextMention), 123, "group", 2),
      MkUpdate(57, Some(13), FALSE, NoneVal, 123, "group", 2),
      MkUpdate(58, Some(7), FALSE, Some(TextSetCooldown0), 7, "private", 1),
      MkUpdate(59, Some(7), FALSE, Some(TextSetCooldownBad), 7, "private", 1),
      MkUpdate(60, Some(7), FALSE, Some(TextResetConfig), 7, "private", 1),
      MkUpdate(61, Some(7), FALSE, Some(TextHi), 7, "private", 1),
      MkUpdate(62, Some(7), FALSE, Some(TextSetChance0), 7, "private", 1),
      MkUpdate(63, Some(7), FALSE, Some(TextSetChanceBad), 7, "private", 1),
      MkUpdate(64, Some(7), FALSE, Some(TextGetConfig), 7, "private", 1),
      MkUpdate(65, Some(7), FALSE, Some(TextHelp), 7, "private", 1),
      MkUpdate(66, Some(7), FALSE, Some(TextUnknownCmd), 7, "private", 1),
      MkUpdate(67, Some(7), FALSE, Some(TextSetCooldownAtBot), 7, "private", 1),
      MkUpdate(68, Some(7), FALSE, Some(TextSetCooldownAtOther), 7, "private", 1),
      MkUpdate(69, Some(12), FALSE, Some(TextSetCooldown0), 123, "group", 1),
      MkUpdate(70, Some(7), FALSE, Some(TextSetCooldown0), 123, "group", 1),
      MkUpdate(71, Some(7), FALSE, Some(TextSetMaxTokens5), 7, "private", 1),
      MkUpdate(72, Some(7), FALSE, Some(TextSetSentences1), 7, "private", 1),
      MkUpdate(73, Some(7), FALSE, Some(TextSetPrompt), 7, "private", 1),
      MkUpdate(74, Some(7), FALSE, Some(TextSetTemperature), 7, "private", 1),
      MkUpdate(75, Some(7), FALSE, Some(TextSetChanceHalf), 7, "private", 1),
      MkUpdate(76, Some(7), FALSE, Some(TextSetPromptEmpty), 7, "private", 1),
      MkUpdate(77, Some(7), FALSE, Some(TextSetCooldownNeg), 7, "private", 1),
      MkUpdate(78, Some(7), FALSE, Some(TextSetMaxTokens0), 7, "private", 1),
      MkUpdate(79, Some(12), FALSE, Some(TextSetCooldown0), 12, "private", 1),
      MkUpdate(51, Some(11), FALSE, Some(TextHi), 123, "group", 2)>>

UpdateIds == DOMAIN Updates

\* Bodies of webhook requests.  kind: "malformed" (not JSON), "empty" (a JSON
\* value that is falsy, such as {}), "update" (a JSON object).  For an update:
\* has_message says whether it has a message field, has_from whether the
\* message has a non-empty from object, u holds the fields of the message.
MkBody(kind, update_id, has_message, has_from, u) ==
    [kind |-> kind, update_id |-> update_id, has_message |-> has_message,
     has_from |-> has_from, u |-> u]

NoMessage == MkUpdate(0, NoneVal, FALSE, NoneVal, 0, "", 0)

WebhookBodies ==
    <<MkBody("malformed", 0, FALSE, FALSE, NoMessage),
      MkBody("empty", 0, FALSE, FALSE, NoMessage),
      MkBody("update", 101, FALSE, FALSE, NoMessage),
      MkBody("update", 102, TRUE, FALSE,
             MkUpdate(90, NoneVal, FALSE, Some(TextHi), 123, "group", 1)),
      MkBody("update", 1, TRUE, TRUE, Updates[1]),
      MkBody("update", 3, TRUE, TRUE, Updates[3]),
      MkBody("update", 4, TRUE, TRUE, Updates[4]),
      MkBody("update", 5, TRUE, TRUE, Updates[5]),
      MkBody("update", 8, TRUE, TRUE, Updates[8]),
      MkBody("update", 20, TRUE, TRUE, Updates[20]),
      MkBody("update", 29, TRUE, TRUE, Updates[29]),
      MkBody("update", 103, TRUE, TRUE,
             MkUpdate(91, Some(10), FALSE, Some(TextHi), 456, "group", 1)),
      MkBody("update", 104, TRUE, TRUE,
             MkUpdate(92, Some(7), FALSE, Some(TextSetCooldown0), 456, "group", 1)),
      MkBody("update", 105, TRUE, TRUE,
             MkUpdate(93, Some(7), TRUE, Some(TextHi), 7, "private", 1))>>

\* A request to the push endpoint.  payload: "malformed" (not JSON), "empty"
\* (a falsy JSON value), "envelope" (a JSON object).  auth: the authorization
\* header is "missing" (absent or not a bearer token), "invalid" (a bearer
\* token that verification rejects) or "valid".  data: message.data is
\* "missing", "empty", "undecodable" (not base64 of a JSON document) or
\* "update", the encoding of update number update.
MkPush(payload, auth, data, update) ==
    [payload |-> payload, auth |-> auth, data |-> data, update |-> update]

NoPush == MkPush("none", "none", "none", 0)

\* The updates the queue delivers to the push endpoint.
PushUpdateIds == {1, 8}

PushRequests ==
    {MkPush(payload, auth, "missing", 0) :
        payload \in {"malformed", "empty"}, auth \in {"missing", "invalid", "valid"}}
    \cup {MkPush("envelope", auth, data, 0) :
        auth \in {"missing", "invalid", "valid"},
        data \in {"missing", "empty", "undecodable"}}
    \cup {MkPush("envelope", auth, "update", u) :
        auth \in {"missing", "invalid", "valid"}, u \in PushUpdateIds}

\* Values of the secret header: the configured secret, another one, and the
\* header missing (read as "").
Secrets == {"secret", "wrong", ""}
Handlers == 1..MaxDeliveries

\* What the generation service can answer to one HTTP attempt:
\* a completion (its content), a 429, another HTTP error status, or a
\* connection error / timeout (requests.RequestException).
Contents == {<<"o", "k">>, <<" ">>, <<"a", ".", " ", "b", "!", " ", " ", "c">>}
AttemptOutcomes ==
    [kind : {"content"}, content : Contents]
        \cup {[kind |-> "rate_limited"], [kind |-> "http_error"], [kind |-> "conn_error"]}

\* ---------------------------------------------------------------- state
VARIABLES
    processed,        \* processed_updates collection: update_id -> processed_at
    messages,         \* chats/<ingest>/messages: message_id -> payload
    replies,          \* chats/<reply>/replies: message_id -> [reply_text, date]
    runtime_config,   \* the runtime-config record (override key -> value)
    sent,             \* sendMessage calls that succeeded, in order
    now,              \* wall clock
    storeFailures,    \* storage errors raised so far
    pc,               \* per delivery: position inside process_update
    upd,              \* per delivery: update_id being processed (0: none yet)
    rcfg,             \* per delivery: runtime_config read at line 289
    reply,            \* per delivery: text returned by generate_reply
    result,           \* per delivery: "none" | "returned" | "raised"
    trail,            \* per delivery: what happened to it (observation only)
    published,        \* queue topic: the update bodies published, in order
    webhook,          \* the webhook request handled last and its response
    push,             \* the push endpoint: its settings, the delivery handled
                      \* last, and the delivery that started each handler
    call,             \* the generate_reply call made last: the answers of the
                      \* service to its attempts, and how it ended
    style,            \* the _build_style_profile call made last: the history
                      \* it was given and the profile it returned
    video             \* the VideoProcessor call made last: the method, what
                      \* its environment did, and how the call ended

vars == <<processed, messages, replies, runtime_config, sent, now, storeFailures,
          pc, upd, rcfg, reply, result, trail, published, webhook, push, call,
          style, video>>

store == <<processed, messages, replies, runtime_config>>
locals == <<pc, upd, rcfg, reply, result, trail>>
intake == <<published, webhook>>

\* ---------------------------------------------------------------- ai_adapter
IsSpace(c) == c \in {" ", "\n", "\t"}

\* str.strip()
RECURSIVE LStrip(_)
LStrip(s) == IF s # <<>> /\ IsSpace(Head(s)) THEN LStrip(Tail(s)) ELSE s

RECURSIVE RStrip(_)
RStrip(s) ==
    IF s # <<>> /\ IsSpace(s[Len(s)]) THEN RStrip(SubSeq(s, 1, Len(s) - 1)) ELSE s

Strip(s) == RStrip(LStrip(s))

\* re.split(r"(?<=[.!?])\s+", s): cut at every whitespace run that follows
\* one of . ! ?   `cur` is the part being collected, `i` the next index.
RECURSIVE SkipSpaces(_, _)
SkipSpaces(s, i) == IF i <= Len(s) /\ IsSpace(s[i]) THEN SkipSpaces(s, i + 1) ELSE i

RECURSIVE SplitSentences(_, _, _)
SplitSentences(s, i, cur) ==
    IF i > Len(s) THEN <<cur>>
    ELSE IF IsSpace(s[i]) /\ i > 1 /\ s[i - 1] \in {".", "!", "?"}
         THEN <<cur>> \o SplitSentences(s, SkipSpaces(s, i), <<>>)
         ELSE SplitSentences(s, i + 1, Append(cur, s[i]))

\* " ".join(parts)
RECURSIVE JoinSpace(_)
JoinSpace(parts) ==
    IF parts = <<>> THEN <<>>
    ELSE IF Len(parts) = 1 THEN parts[1]
    ELSE parts[1] \o <<" ">> \o JoinSpace(Tail(parts))

_trim_reply(text, max_sentences) ==
    IF max_sentences <= 0 THEN Strip(text)
    ELSE LET parts == SplitSentences(Strip(text), 1, <<>>)
         IN  IF Len(parts) <= max_sentences THEN Strip(text)
             ELSE Strip(JoinSpace(SubSeq(parts, 1, max_sentences)))

RECURSIVE GenLoop_ConstantBackoff(_, _, _)
GenLoop_ConstantBackoff(outs, attempt, waits) ==
    IF attempt > DEFAULT_OPENAI_MAX_RETRIES
    THEN [raised |-> FALSE, text |-> <<>>, attempts |-> attempt - 1, waits |-> waits]
    ELSE LET o == outs[attempt]
         IN  IF o.kind = "content"
             THEN [raised |-> FALSE,
                   text |-> _trim_reply(Strip(o.content), DEFAULT_MAX_REPLY_SENTENCES),
                   attempts |-> attempt, waits |-> waits]
             ELSE IF o.kind = "http_error"
             THEN [raised |-> TRUE, text |-> <<>>, attempts |-> attempt, waits |-> waits]
             ELSE GenLoop_ConstantBackoff(outs, attempt + 1,
                          Append(waits, DEFAULT_OPENAI_BACKOFF_SECONDS))

RECURSIVE GenLoop_ConnErrorRaises(_, _, _)
GenLoop_ConnErrorRaises(outs, attempt, waits) ==
    IF attempt > DEFAULT_OPENAI_MAX_RETRIES
    THEN [raised |-> FALSE, text |-> <<>>, attempts |-> attempt - 1, waits |-> waits]
    ELSE LET o == outs[attempt]
         IN  IF o.kind = "content"
             THEN [raised |-> FALSE,
                   text |-> _trim_reply(Strip(o.content), DEFAULT_MAX_REPLY_SENTENCES),
                   attempts |-> attempt, waits |-> waits]
             ELSE IF o.kind \in {"http_error", "conn_error"}
             THEN [raised |-> TRUE, text |-> <<>>, attempts |-> attempt, waits |-> waits]
             ELSE GenLoop_ConnErrorRaises(outs, attempt + 1,
                          IF attempt < DEFAULT_OPENAI_MAX_RETRIES
                          THEN Append(waits, DEFAULT_OPENAI_BACKOFF_SECONDS * attempt)
                          ELSE waits)

\* generate_reply's retry loop.  outs[a] is what the service answers to
\* attempt a.  The result says whether the call raised, the text it returned,
\* how many attempts were made and the sleeps between them.
RECURSIVE GenLoop(_, _, _)
GenLoop(outs, attempt, waits) ==
    IF attempt > DEFAULT_OPENAI_MAX_RETRIES
    THEN [raised |-> FALSE, text |-> <<>>, attempts |-> attempt - 1, waits |-> waits]
    ELSE LET o == outs[attempt]
         IN  IF o.kind = "content"
             THEN [raised |-> FALSE,
                   text |-> _trim_reply(Strip(o.content), DEFAULT_MAX_REPLY_SENTENCES),
                   attempts |-> attempt, waits |-> waits]
             ELSE IF o.kind = "http_error"
             THEN [raised |-> TRUE, text |-> <<>>, attempts |-> attempt, waits |-> waits]
             ELSE GenLoop(outs, attempt + 1,
                          IF attempt < DEFAULT_OPENAI_MAX_RETRIES
                          THEN Append(waits, DEFAULT_OPENAI_BACKOFF_SECONDS * attempt)
                          ELSE waits)

generate_reply(outs) == GenLoop(outs, 1, <<>>)

\* No generate_reply call made yet.
NoCall == [n |-> 0, outs |-> <<>>, g |-> [raised |-> FALSE, text |-> <<>>, attempts |-> 0, waits |-> <<>>]]

\* No _build_style_profile call made yet.
NoStyle ==
    [n |-> 0, history |-> <<>>,
     profile |-> [average_length |-> <<0, 1>>, emoji_ratio |-> <<0, 1>>,
                  common_words |-> <<>>, topics |-> <<>>],
     messages |-> <<>>]

\* No VideoProcessor call made yet.
NoVideo == [n |-> 0, fn |-> "none", env |-> <<>>, out |-> [raised |-> FALSE, value |-> {}]]

\* How a generate_reply call went, from the attempts it consumed:
\* "exhausted_429" when it made every attempt it may make and each was
\* answered 429.
GenClass(outs, g) ==
    IF g.raised THEN "raised"
    ELSE IF outs[g.attempts].kind = "content"
         THEN (IF g.text = <<>> THEN "empty_content" ELSE "text")
    ELSE IF /\ g.attempts = DEFAULT_OPENAI_MAX_RETRIES
            /\ \A a \in 1..g.attempts : outs[a].kind = "rate_limited"
         THEN "exhausted_429"
    ELSE "gave_up"

\* ---------------------------------------------------------------- storage
is_update_processed_Never(update_id) == FALSE

\* is_update_processed: doc.exists
is_update_processed(update_id) == update_id \in DOMAIN processed

\* get_last_reply_time: newest reply's date, None without replies.
get_last_reply_time ==
    IF DOMAIN replies = {} THEN NoneVal
    ELSE Some(CHOOSE d \in {replies[m].date : m \in DOMAIN replies} :
                  \A m \in DOMAIN replies : replies[m].date <= d)

\* A store call either succeeds or raises a storage error.
StoreOutcomes == IF storeFailures < MaxStoreFailures THEN {TRUE, FALSE} ELSE {TRUE}

\* ---------------------------------------------------------------- reply policy
ShouldReplyEarly_NoQuestion(u) ==
    IF u.is_bot THEN Some(FALSE)
    ELSE IF IsNone(u.from_id) THEN Some(FALSE)
    ELSE IF bot_user_id # 0 /\ Val(u.from_id) = bot_user_id THEN Some(FALSE)
    ELSE LET text == IF IsNone(u.text) THEN <<>> ELSE Val(u.text)
         IN  IF bot_username # <<>> /\ Contains(<<"@">> \o bot_username, text)
             THEN Some(TRUE)
             ELSE NoneVal

ShouldReplyEarly_QuestionFirst(u) ==
    LET text == IF IsNone(u.text) THEN <<>> ELSE Val(u.text)
    IN  IF Contains(<<"?">>, text) THEN Some(TRUE)
        ELSE IF u.is_bot THEN Some(FALSE)
        ELSE IF IsNone(u.from_id) THEN Some(FALSE)
        ELSE IF bot_user_id # 0 /\ Val(u.from_id) = bot_user_id THEN Some(FALSE)
        ELSE IF bot_username # <<>> /\ Contains(<<"@">> \o bot_username, text)
        THEN Some(TRUE)
        ELSE NoneVal

ShouldReplyEarly_NoMention(u) ==
    IF u.is_bot THEN Some(FALSE)
    ELSE IF IsNone(u.from_id) THEN Some(FALSE)
    ELSE IF bot_user_id # 0 /\ Val(u.from_id) = bot_user_id THEN Some(FALSE)
    ELSE LET text == IF IsNone(u.text) THEN <<>> ELSE Val(u.text)
         IN  IF Contains(<<"?">>, text) THEN Some(TRUE)
             ELSE NoneVal

\* _should_reply, lines 95-109: the checks made before the store is read.
\* Some(b): returns b there; None: falls through to the cooldown lookup.
ShouldReplyEarly(u) ==
    IF u.is_bot THEN Some(FALSE)
    ELSE IF IsNone(u.from_id) THEN Some(FALSE)
    ELSE IF bot_user_id # 0 /\ Val(u.from_id) = bot_user_id THEN Some(FALSE)
    ELSE LET text == IF IsNone(u.text) THEN <<>> ELSE Val(u.text)
         IN  IF bot_username # <<>> /\ Contains(<<"@">> \o bot_username, text)
             THEN Some(TRUE)
             ELSE IF Contains(<<"?">>, text) THEN Some(TRUE)
             ELSE NoneVal

ShouldReplyGated_Inclusive(last_reply_time, nowv, draw, reply_chance, cooldown_seconds) ==
    IF ~IsNone(last_reply_time) /\ nowv - Val(last_reply_time) <= cooldown_seconds
    THEN FALSE
    ELSE draw < reply_chance

\* _should_reply, lines 111-117: cooldown, then the random draw.
ShouldReplyGated(last_reply_time, nowv, draw, reply_chance, cooldown_seconds) ==
    IF ~IsNone(last_reply_time) /\ nowv - Val(last_reply_time) < cooldown_seconds
    THEN FALSE
    ELSE draw < reply_chance

_should_reply(u, last_reply_time, nowv, draw, reply_chance, cooldown_seconds) ==
    IF ~IsNone(ShouldReplyEarly(u)) THEN Val(ShouldReplyEarly(u))
    ELSE ShouldReplyGated(last_reply_time, nowv, draw, reply_chance, cooldown_seconds)

_is_admin_dm_AnyChat(u) ==
    /\ admin_user_id # 0
    /\ ~IsNone(u.from_id)
    /\ Val(u.from_id) = admin_user_id

\* _is_admin_dm
_is_admin_dm(u) ==
    /\ admin_user_id # 0
    /\ ~IsNone(u.from_id)
    /\ Val(u.from_id) = admin_user_id
    /\ u.chat_type = "private"

\* ---------------------------------------------------------------- admin commands
UpperToLower ==
    ("A" :> "a") @@ ("B" :> "b") @@ ("C" :> "c") @@ ("D" :> "d") @@ ("E" :> "e") @@ ("F" :> "f") @@
    ("G" :> "g") @@ ("H" :> "h") @@ ("I" :> "i") @@ ("J" :> "j") @@ ("K" :> "k") @@ ("L" :> "l") @@
    ("M" :> "m") @@ ("N" :> "n") @@ ("O" :> "o") @@ ("P" :> "p") @@ ("Q" :> "q") @@ ("R" :> "r") @@
    ("S" :> "s") @@ ("T" :> "t") @@ ("U" :> "u") @@ ("V" :> "v") @@ ("W" :> "w") @@ ("X" :> "x") @@
    ("Y" :> "y") @@ ("Z" :> "z")

\* str.lower()
Lower(s) == [i \in 1..Len(s) |-> IF s[i] \in DOMAIN UpperToLower THEN UpperToLower[s[i]] ELSE s[i]]

DigitVal ==
    ("0" :> 0) @@ ("1" :> 1) @@ ("2" :> 2) @@ ("3" :> 3) @@ ("4" :> 4) @@ ("5" :> 5) @@ ("6" :> 6) @@ ("7" :> 7) @@ ("8" :> 8) @@ ("9" :> 9)

RECURSIVE FirstIndex(_, _, _)
\* Index of the first character of s from i on that is in set cs; Len(s)+1 if none.
FirstIndex(s, i, cs) ==
    IF i > Len(s) \/ s[i] \in cs THEN i ELSE FirstIndex(s, i + 1, cs)

RECURSIVE DigitsValue(_, _)
DigitsValue(s, acc) ==
    IF s = <<>> THEN acc ELSE DigitsValue(Tail(s), 10 * acc + DigitVal[Head(s)])

AllDigits(s) == s # <<>> /\ \A i \in 1..Len(s) : s[i] \in DOMAIN DigitVal

HasSign(s) == s # <<>> /\ Head(s) \in {"+", "-"}
Unsigned(s) == IF HasSign(s) THEN Tail(s) ELSE s
Sign(s) == IF s # <<>> /\ Head(s) = "-" THEN -1 ELSE 1

_parse_int_ZeroOnError(value) ==
    IF AllDigits(Unsigned(value))
    THEN Some(Sign(value) * DigitsValue(Unsigned(value), 0))
    ELSE Some(0)

\* _parse_int: int(value), None on ValueError.
_parse_int(value) ==
    IF AllDigits(Unsigned(value))
    THEN Some(Sign(value) * DigitsValue(Unsigned(value), 0))
    ELSE NoneVal

\* _parse_float: float(value), None on ValueError.  A float is kept in fixed
\* point, in units of 1/FloatScale; the inputs carry at most one fractional digit.
_parse_float(value) ==
    LET body == Unsigned(value)
        dot == FirstIndex(body, 1, {"."})
        whole == SubSeq(body, 1, dot - 1)
        frac == SubSeq(body, dot + 1, Len(body))
    IN  IF dot > Len(body)
        THEN (IF AllDigits(body)
              THEN Some(Sign(value) * DigitsValue(body, 0) * FloatScale)
              ELSE NoneVal)
        ELSE IF /\ (whole = <<>> \/ AllDigits(whole))
                /\ (frac = <<>> \/ (AllDigits(frac) /\ Len(frac) = 1))
                /\ ~(whole = <<>> /\ frac = <<>>)
        THEN Some(Sign(value) * (DigitsValue(whole, 0) * FloatScale
                                 + (DigitsValue(frac, 0) * FloatScale) \div 10))
        ELSE NoneVal

Cmd_help ==
    <<"h", "e", "l", "p">>
Cmd_commands ==
    <<"c", "o", "m", "m", "a", "n", "d", "s">>
Cmd_get_config ==
    <<"g", "e", "t", "_", "c", "o", "n", "f", "i", "g">>
Cmd_reset_config ==
    <<"r", "e", "s", "e", "t", "_", "c", "o", "n", "f", "i", "g">>
Cmd_set_reply_chance ==
    <<"s", "e", "t", "_", "r", "e", "p", "l", "y", "_", "c", "h", "a", "n", "c", "e">>
Cmd_set_cooldown ==
    <<"s", "e", "t", "_", "c", "o", "o", "l", "d", "o", "w", "n">>
Cmd_set_context_messages ==
    <<"s", "e", "t", "_", "c", "o", "n", "t", "e", "x", "t", "_", "m", "e", "s", "s", "a", "g", "e", "s">>
Cmd_set_history_limit ==
    <<"s", "e", "t", "_", "h", "i", "s", "t", "o", "r", "y", "_", "l", "i", "m", "i", "t">>
Cmd_set_max_reply_sentences ==
    <<"s", "e", "t", "_", "m", "a", "x", "_", "r", "e", "p", "l", "y", "_", "s", "e", "n", "t", "e", "n", "c", "e", "s">>
Cmd_set_model_temperature ==
    <<"s", "e", "t", "_", "m", "o", "d", "e", "l", "_", "t", "e", "m", "p", "e", "r", "a", "t", "u", "r", "e">>
Cmd_set_max_tokens ==
    <<"s", "e", "t", "_", "m", "a", "x", "_", "t", "o", "k", "e", "n", "s">>
Cmd_set_system_prompt ==
    <<"s", "e", "t", "_", "s", "y", "s", "t", "e", "m", "_", "p", "r", "o", "m", "p", "t">>

\* _extract_command: Some([command, args]) or None.
_extract_command(text, username) ==
    IF text = <<>> \/ Head(text) # "/" THEN NoneVal
    ELSE LET st == Strip(text)
             sp == FirstIndex(st, 1, {" ", "\n", "\t"})
             first == SubSeq(st, 1, sp - 1)
             args == SubSeq(st, SkipSpaces(st, sp), Len(st))
             command_part == Tail(first)
             at == FirstIndex(command_part, 1, {"@"})
         IN  IF command_part = <<>> THEN NoneVal
             ELSE IF at <= Len(command_part)
             THEN (IF username # <<>>
                      /\ Lower(SubSeq(command_part, at + 1, Len(command_part)))
                            # Lower(username)
                   THEN NoneVal
                   ELSE Some([command |-> Lower(SubSeq(command_part, 1, at - 1)),
                              args |-> args]))
             ELSE Some([command |-> Lower(command_part), args |-> args])

EffectiveConfig_Defaults(rc) ==
    [reply_chance |-> DEFAULT_REPLY_CHANCE,
     cooldown_seconds |-> DEFAULT_COOLDOWN_SECONDS,
     context_messages |-> DEFAULT_CONTEXT_MESSAGES,
     history_limit |-> DEFAULT_HISTORY_LIMIT,
     max_reply_sentences |-> DEFAULT_MAX_REPLY_SENTENCES,
     model_temperature |-> DEFAULT_MODEL_TEMPERATURE,
     max_tokens |-> DEFAULT_MAX_TOKENS,
     system_prompt |-> DEFAULT_SYSTEM_PROMPT]

\* The merged view that get_config dumps.
EffectiveConfig(rc) ==
    [reply_chance |-> Get(rc, "reply_chance", DEFAULT_REPLY_CHANCE),
     cooldown_seconds |-> Get(rc, "cooldown_seconds", DEFAULT_COOLDOWN_SECONDS),
     context_messages |-> Get(rc, "context_messages", DEFAULT_CONTEXT_MESSAGES),
     history_limit |-> Get(rc, "history_limit", DEFAULT_HISTORY_LIMIT),
     max_reply_sentences |-> Get(rc, "max_reply_sentences", DEFAULT_MAX_REPLY_SENTENCES),
     model_temperature |-> Get(rc, "model_temperature", DEFAULT_MODEL_TEMPERATURE),
     max_tokens |-> Get(rc, "max_tokens", DEFAULT_MAX_TOKENS),
     system_prompt |-> Get(rc, "system_prompt", DEFAULT_SYSTEM_PROMPT)]

\* What one command does: the store call it makes ("none", "clear" or
\* "save"), the mapping it saves, and the reply it sends.
Outcome(write, config, text, dump) ==
    [handled |-> TRUE, write |-> write, config |-> config,
     reply |-> Some([text |-> <<text>>, dump |-> dump])]

Invalid(text) == Outcome("none", EmptyMap, text, EmptyMap)

\* The set_<field> commands without their range tests: any value that parses is saved.
SetCommand_NoRangeCheck(command, args, rc) ==
    LET Save(key, value) ==
            Outcome("save", Put(rc, key, value), "Updated runtime config.", EmptyMap)
        i == _parse_int(args)
        f == _parse_float(args)
        SaveInt(key) == IF IsNone(i) THEN Invalid("Invalid value.") ELSE Save(key, Val(i))
        SaveFloat(key) == IF IsNone(f) THEN Invalid("Invalid value.") ELSE Save(key, Val(f))
    IN  IF command = Cmd_set_reply_chance THEN SaveFloat("reply_chance")
        ELSE IF command = Cmd_set_cooldown THEN SaveInt("cooldown_seconds")
        ELSE IF command = Cmd_set_context_messages THEN SaveInt("context_messages")
        ELSE IF command = Cmd_set_history_limit THEN SaveInt("history_limit")
        ELSE IF command = Cmd_set_max_reply_sentences THEN SaveInt("max_reply_sentences")
        ELSE IF command = Cmd_set_model_temperature THEN SaveFloat("model_temperature")
        ELSE IF command = Cmd_set_max_tokens THEN SaveInt("max_tokens")
        ELSE IF command = Cmd_set_system_prompt THEN Save("system_prompt", args)
        ELSE Invalid("Unknown command. Use /help for a list of commands.")

\* Lines 220-275: the set_<field> commands.
SetCommand(command, args, rc) ==
    LET Save(key, value) ==
            Outcome("save", Put(rc, key, value), "Updated runtime config.", EmptyMap)
        i == _parse_int(args)
        f == _parse_float(args)
    IN  IF command = Cmd_set_reply_chance
        THEN (IF IsNone(f) \/ ~(0 <= Val(f) /\ Val(f) <= 1 * FloatScale)
              THEN Invalid("Invalid reply_chance. Expected a number between 0 and 1.")
              ELSE Save("reply_chance", Val(f)))
        ELSE IF command = Cmd_set_cooldown
        THEN (IF IsNone(i) \/ Val(i) < 0
              THEN Invalid("Invalid cooldown. Expected a non-negative integer.")
              ELSE Save("cooldown_seconds", Val(i)))
        ELSE IF command = Cmd_set_context_messages
        THEN (IF IsNone(i) \/ Val(i) <= 0
              THEN Invalid("Invalid context_messages. Expected a positive integer.")
              ELSE Save("context_messages", Val(i)))
        ELSE IF command = Cmd_set_history_limit
        THEN (IF IsNone(i) \/ Val(i) <= 0
              THEN Invalid("Invalid history_limit. Expected a positive integer.")
              ELSE Save("history_limit", Val(i)))
        ELSE IF command = Cmd_set_max_reply_sentences
        THEN (IF IsNone(i) \/ Val(i) < 0
              THEN Invalid("Invalid max_reply_sentences. Expected 0 or a positive integer.")
              ELSE Save("max_reply_sentences", Val(i)))
        ELSE IF command = Cmd_set_model_temperature
        THEN (IF IsNone(f) \/ ~(0 <= Val(f) /\ Val(f) <= 2 * FloatScale)
              THEN Invalid("Invalid model_temperature. Expected a number between 0 and 2.")
              ELSE Save("model_temperature", Val(f)))
        ELSE IF command = Cmd_set_max_tokens
        THEN (IF IsNone(i) \/ Val(i) <= 0
              THEN Invalid("Invalid max_tokens. Expected a positive integer.")
              ELSE Save("max_tokens", Val(i)))
        ELSE IF command = Cmd_set_system_prompt
        THEN (IF args = <<>>
              THEN Invalid("Invalid system_prompt. Provide the prompt text after the command.")
              ELSE Save("system_prompt", args))
        ELSE Invalid("Unknown command. Use /help for a list of commands.")

_handle_admin_command_ResetNoClear(u, rc) ==
    LET parsed == _extract_command(IF IsNone(u.text) THEN <<>> ELSE Val(u.text),
                                   bot_username)
    IN  IF IsNone(parsed)
        THEN [handled |-> FALSE, write |-> "none", config |-> EmptyMap, reply |-> NoneVal]
        ELSE LET command == Val(parsed).command
                 args == Strip(Val(parsed).args)
             IN  IF command \in {Cmd_help, Cmd_commands}
                 THEN Outcome("none", EmptyMap, "Commands: ...", EmptyMap)
                 ELSE IF command = Cmd_get_config
                 THEN Outcome("none", EmptyMap, "Current config:", EffectiveConfig(rc))
                 ELSE IF command = Cmd_reset_config
                 THEN Outcome("none", EmptyMap, "Runtime config cleared.", EmptyMap)
                 ELSE SetCommand(command, args, rc)

\* _handle_admin_command, for the runtime config rc read at line 289.
_handle_admin_command(u, rc) ==
    LET parsed == _extract_command(IF IsNone(u.text) THEN <<>> ELSE Val(u.text),
                                   bot_username)
    IN  IF IsNone(parsed)
        THEN [handled |-> FALSE, write |-> "none", config |-> EmptyMap, reply |-> NoneVal]
        ELSE LET command == Val(parsed).command
                 args == Strip(Val(parsed).args)
             IN  IF command \in {Cmd_help, Cmd_commands}
                 THEN Outcome("none", EmptyMap, "Commands: ...", EmptyMap)
                 ELSE IF command = Cmd_get_config
                 THEN Outcome("none", EmptyMap, "Current config:", EffectiveConfig(rc))
                 ELSE IF command = Cmd_reset_config
                 THEN Outcome("clear", EmptyMap, "Runtime config cleared.", EmptyMap)
                 ELSE SetCommand(command, args, rc)

\* ---------------------------------------------------------------- process_update
\* No webhook request handled yet.
NoRequest ==
    [n |-> 0, secret |-> "", body |-> 0, status |-> 0, result |-> "none", before |-> 0]

\* The push endpoint before any request, with the given PUBSUB_AUDIENCE and
\* SKIP_PUBSUB_AUTH settings.
InitPush(audience, skip_auth) ==
    [n |-> 0, audience |-> audience, skip_auth |-> skip_auth,
     req |-> NoPush, stage |-> "none", status |-> 0,
     started |-> [h \in Handlers |-> NoPush]]

InitTrail ==
    [after |-> {}, markedAtStart |-> FALSE, saves |-> 0, sends |-> 0,
     replySaves |-> 0, marks |-> 0, cfgWrites |-> 0, adminReplies |-> 0,
     savedBeforePolicy |-> FALSE,
     passedDedup |-> FALSE, coolingDown |-> FALSE, should |-> "none",
     gen |-> "none", faults |-> {},
     thresholds |-> NoneVal, metadata |-> NoneVal, request |-> NoneVal,
     context |-> NoneVal]

Init ==
    /\ processed = EmptyMap
    /\ messages = EmptyMap
    /\ replies = EmptyMap
    /\ runtime_config = EmptyMap
    /\ sent = <<>>
    /\ now = 0
    /\ storeFailures = 0
    /\ pc = [h \in Handlers |-> "idle"]
    /\ upd = [h \in Handlers |-> 0]
    /\ rcfg = [h \in Handlers |-> EmptyMap]
    /\ reply = [h \in Handlers |-> <<>>]
    /\ result = [h \in Handlers |-> "none"]
    /\ trail = [h \in Handlers |-> InitTrail]
    /\ published = <<>>
    /\ webhook = NoRequest
    /\ push = InitPush("aud", FALSE)
    /\ call = NoCall
    /\ style = NoStyle
    /\ video = NoVideo

\* The exception leaves process_update: handle_pubsub_push re-raises, the
\* endpoint answers 500.
Raises(h) ==
    /\ pc' = [pc EXCEPT ![h] = "done"]
    /\ result' = [result EXCEPT ![h] = "raised"]

Returns(h) ==
    /\ pc' = [pc EXCEPT ![h] = "done"]
    /\ result' = [result EXCEPT ![h] = "returned"]

Goto(h, label) ==
    /\ pc' = [pc EXCEPT ![h] = label]
    /\ UNCHANGED result

StoreCall(ok) == storeFailures' = IF ok THEN storeFailures ELSE storeFailures + 1

\* Lines 286-298: a delivery of update u enters process_update; the runtime
\* config is read before anything else.
Start(h, u) ==
    /\ pc[h] = "idle"
    /\ \A g \in Handlers : g < h => pc[g] # "idle"
    /\ upd' = [upd EXCEPT ![h] = u]
    /\ \E ok \in StoreOutcomes :
        /\ StoreCall(ok)
        /\ IF ok THEN Goto(h, "dedup") /\ rcfg' = [rcfg EXCEPT ![h] = runtime_config]
                 ELSE Raises(h) /\ UNCHANGED rcfg
        /\ trail' = [trail EXCEPT
                ![h].after = {g \in Handlers : pc[g] = "done" /\ upd[g] = u},
                ![h].markedAtStart = u \in DOMAIN processed,
                ![h].faults = IF ok THEN {} ELSE {"get_runtime_config"}]
    /\ UNCHANGED <<store, sent, now, reply, intake, call, style, video>>

Dedup_NoDuplicateCheck(h) ==
    /\ pc[h] = "dedup"
    /\ \E ok \in StoreOutcomes :
        /\ StoreCall(ok)
        /\ IF ~ok THEN Raises(h)
           ELSE IF _is_admin_dm(Updates[upd[h]]) THEN Goto(h, "admin")
           ELSE Goto(h, "save_message")
        /\ trail' = [trail EXCEPT
                ![h].passedDedup = ok /\ upd[h] \notin DOMAIN processed,
                ![h].faults = IF ok THEN @ ELSE @ \cup {"is_update_processed"}]
    /\ UNCHANGED <<store, sent, now, upd, rcfg, reply, intake, call, style, video, push>>

Dedup_MarksDuplicate(h) ==
    /\ pc[h] = "dedup"
    /\ \E ok \in StoreOutcomes :
        /\ StoreCall(ok)
        /\ IF ~ok THEN Raises(h) /\ UNCHANGED processed
           ELSE IF is_update_processed(upd[h])
                THEN Returns(h) /\ processed' = Put(processed, upd[h], now)
           ELSE IF _is_admin_dm(Updates[upd[h]])
                THEN Goto(h, "admin") /\ UNCHANGED processed
           ELSE Goto(h, "save_message") /\ UNCHANGED processed
        /\ trail' = [trail EXCEPT
                ![h].passedDedup = ok /\ upd[h] \notin DOMAIN processed,
                ![h].marks = IF ok /\ is_update_processed(upd[h]) THEN @ + 1 ELSE @,
                ![h].faults = IF ok THEN @ ELSE @ \cup {"is_update_processed"}]
    /\ UNCHANGED <<messages, replies, runtime_config, sent, now, upd, rcfg, reply, intake, call, style, video, push>>

Dedup_NoAdminBranch(h) ==
    /\ pc[h] = "dedup"
    /\ \E ok \in StoreOutcomes :
        /\ StoreCall(ok)
        /\ IF ~ok THEN Raises(h)
           ELSE IF is_update_processed(upd[h]) THEN Returns(h)
           ELSE Goto(h, "save_message")
        /\ trail' = [trail EXCEPT
                ![h].passedDedup = ok /\ upd[h] \notin DOMAIN processed,
                ![h].faults = IF ok THEN @ ELSE @ \cup {"is_update_processed"}]
    /\ UNCHANGED <<store, sent, now, upd, rcfg, reply, intake, call, style, video, push>>

\* Lines 299-303: the dedup check, then the admin-DM test.
Dedup(h) ==
    /\ pc[h] = "dedup"
    /\ \E ok \in StoreOutcomes :
        /\ StoreCall(ok)
        /\ IF ~ok THEN Raises(h)
           ELSE IF is_update_processed(upd[h]) THEN Returns(h)
           ELSE IF _is_admin_dm(Updates[upd[h]]) THEN Goto(h, "admin")
           ELSE Goto(h, "save_message")
        /\ trail' = [trail EXCEPT
                ![h].passedDedup = ok /\ upd[h] \notin DOMAIN processed,
                ![h].faults = IF ok THEN @ ELSE @ \cup {"is_update_processed"}]
    /\ UNCHANGED <<store, sent, now, upd, rcfg, reply, intake, call, style, video, push>>

\* save_message: document(message_id).set(payload)
save_message(u) ==
    messages' = Put(messages, u.message_id,
                    [message_id |-> u.message_id, text |-> u.text, date |-> u.date,
                     user_id |-> u.from_id])

SaveMessage_Skipped(h) ==
    /\ pc[h] = "save_message"
    /\ Goto(h, "policy")
    /\ UNCHANGED <<store, sent, now, storeFailures, upd, rcfg, reply, trail, intake, call, style, video, push>>

\* Lines 313-325.
SaveMessage(h) ==
    /\ pc[h] = "save_message"
    /\ \E ok \in StoreOutcomes :
        /\ StoreCall(ok)
        /\ IF ok THEN save_message(Updates[upd[h]]) /\ Goto(h, "policy")
                 ELSE UNCHANGED messages /\ Raises(h)
        /\ trail' = [trail EXCEPT
                ![h].saves = IF ok THEN @ + 1 ELSE @,
                ![h].faults = IF ok THEN @ ELSE @ \cup {"save_message"}]
    /\ UNCHANGED <<processed, replies, runtime_config, sent, now, upd, rcfg, reply, intake, call, style, video, push>>

\* Lines 327-339: effective thresholds, then _should_reply.  The store is read
\* (and may fail) only when the early checks do not decide.
Policy(h) ==
    /\ pc[h] = "policy"
    /\ LET u == Updates[upd[h]]
           reply_chance == Get(rcfg[h], "reply_chance", DEFAULT_REPLY_CHANCE)
           cooldown_seconds == Get(rcfg[h], "cooldown_seconds", DEFAULT_COOLDOWN_SECONDS)
       IN  \E ok \in (IF IsNone(ShouldReplyEarly(u)) THEN StoreOutcomes ELSE {TRUE}) :
           \E draw \in 0..(FloatScale - 1) :
             LET decision == _should_reply(u, get_last_reply_time, now, draw,
                                           reply_chance, cooldown_seconds)
             IN  /\ StoreCall(ok)
                 /\ IF ~ok THEN Raises(h)
                    ELSE IF decision THEN Goto(h, "history")
                    ELSE Goto(h, "mark")
                 /\ trail' = [trail EXCEPT
                        ![h].savedBeforePolicy = u.message_id \in DOMAIN messages,
                        ![h].thresholds = Some([reply_chance |-> reply_chance,
                                                cooldown_seconds |-> cooldown_seconds]),
                        ![h].coolingDown =
                            /\ ~IsNone(get_last_reply_time)
                            /\ now - Val(get_last_reply_time) < cooldown_seconds,
                        ![h].should = IF ~ok THEN "none"
                                      ELSE IF decision THEN "yes" ELSE "no",
                        ![h].faults = IF ok THEN @ ELSE @ \cup {"get_last_reply_time"}]
    /\ UNCHANGED <<store, sent, now, upd, rcfg, reply, intake, call, style, video, push>>

\* Lines 363-372: the generation parameters put in AIContext.metadata.
Metadata(rc) ==
    [max_reply_sentences |-> Get(rc, "max_reply_sentences", DEFAULT_MAX_REPLY_SENTENCES),
     model_temperature |-> Get(rc, "model_temperature", DEFAULT_MODEL_TEMPERATURE),
     max_tokens |-> Get(rc, "max_tokens", DEFAULT_MAX_TOKENS),
     system_prompt |-> Get(rc, "system_prompt", DEFAULT_SYSTEM_PROMPT)]

\* order_by("date", DESCENDING): document a comes before document b.  Equal
\* dates fall back to the document name, in the same direction; the names
\* are the message ids, all of the same length here.
Newer(a, b) == a.date > b.date \/ (a.date = b.date /\ a.message_id > b.message_id)

RECURSIVE OrderByDateDesc(_)
OrderByDateDesc(docs) ==
    IF docs = {} THEN <<>>
    ELSE LET top == CHOOSE d \in docs : \A e \in docs \ {d} : Newer(d, e)
         IN  <<top>> \o OrderByDateDesc(docs \ {top})

\* python's seq[:n] for n >= 0
Take(seq, n) == SubSeq(seq, 1, IF n < Len(seq) THEN n ELSE Len(seq))

Reversed(seq) == [i \in 1..Len(seq) |-> seq[Len(seq) + 1 - i]]

\* get_latest_messages: the limit newest documents of the ingest chat, newest
\* first.
get_latest_messages(limit) ==
    Take(OrderByDateDesc({messages[k] : k \in DOMAIN messages}), limit)

RECURSIVE SumLen(_)
SumLen(texts) == IF texts = <<>> THEN 0 ELSE Len(Head(texts)) + SumLen(Tail(texts))

\* _build_style_profile, lines 67-74: the texts it reads (messages without
\* text or with empty text are skipped) and average_length, kept as the pair
\* <<total length, number of texts>>.
_build_style_profile(history) ==
    LET texts == SelectSeq([i \in 1..Len(history) |->
                               IF IsNone(history[i].text) THEN <<>> ELSE Val(history[i].text)],
                           LAMBDA s : s # <<>>)
    IN  IF texts = <<>> THEN [average_length |-> <<0, 1>>, texts |-> <<>>]
        ELSE [average_length |-> <<SumLen(texts), Len(texts)>>, texts |-> texts]

\* One-character strings standing for code points in U+1F300..U+1FAFF, the
\* class of the pattern of line 74.
Emoji == {"<grin>", "<fire>"}

\* The characters \w matches: letters, digits and the underscore.
WordChars ==
    DOMAIN UpperToLower \cup {UpperToLower[c] : c \in DOMAIN UpperToLower}
        \cup DOMAIN DigitVal \cup {"_"}

RECURSIVE WordEnd(_, _)
\* Index after the run of word characters of s that starts at i.
WordEnd(s, i) == IF i > Len(s) \/ s[i] \notin WordChars THEN i ELSE WordEnd(s, i + 1)

RECURSIVE Words(_)
\* re.findall(r"\b\w+\b", s), line 77: the maximal runs of word characters,
\* left to right.
Words(s) ==
    IF s = <<>> THEN <<>>
    ELSE IF Head(s) \notin WordChars THEN Words(Tail(s))
    ELSE <<SubSeq(s, 1, WordEnd(s, 1) - 1)>> \o Words(SubSeq(s, WordEnd(s, 1), Len(s)))

\* words.count(w)
CountOf(words, w) == Cardinality({i \in 1..Len(words) : words[i] = w})

RECURSIVE SortedByCount_Ascending(_, _)
\* The distinct words sorted by count the other way round, rarest first.
SortedByCount_Ascending(ws, words) ==
    IF ws = {} THEN {<<>>}
    ELSE UNION {{<<w>> \o rest : rest \in SortedByCount_Ascending(ws \ {w}, words)} :
                   w \in {x \in ws : \A y \in ws : CountOf(words, x) <= CountOf(words, y)}}

RECURSIVE SortedByCount(_, _)
\* sorted(set(words), key=words.count, reverse=True), line 78: the sort is
\* stable and the iteration order of the set depends on the string hashes of
\* the run, so words of equal count come in any order; every such list.
SortedByCount(ws, words) ==
    IF ws = {} THEN {<<>>}
    ELSE UNION {{<<w>> \o rest : rest \in SortedByCount(ws \ {w}, words)} :
                   w \in {x \in ws : \A y \in ws : CountOf(words, x) >= CountOf(words, y)}}

RECURSIVE EmojiCount(_)
\* Line 74: the number of characters of the texts in the emoji range.
EmojiCount(texts) ==
    IF texts = <<>> THEN 0
    ELSE Cardinality({i \in 1..Len(Head(texts)) : Head(texts)[i] \in Emoji})
         + EmojiCount(Tail(texts))

\* _build_style_profile, lines 67-86, with every field: the profiles it can
\* return for a history.  A ratio is kept as the pair <<numerator,
\* denominator>>.
StyleProfiles(history) ==
    LET texts == _build_style_profile(history).texts
        total_length == SumLen(texts)
        words == Words(Lower(JoinSpace(texts)))
    IN  IF texts = <<>>
        THEN {[average_length |-> <<0, 1>>, emoji_ratio |-> <<0, 1>>,
               common_words |-> <<>>, topics |-> <<>>]}
        ELSE {[average_length |-> <<total_length, Len(texts)>>,
               emoji_ratio |-> <<EmojiCount(texts),
                                 IF total_length > 1 THEN total_length ELSE 1>>,
               common_words |-> Take(order, 5),
               topics |-> <<>>] :
                 order \in SortedByCount({words[i] : i \in 1..Len(words)}, words)}

BuildContext_AllInContext(rc) ==
    LET history_limit == Get(rc, "history_limit", DEFAULT_HISTORY_LIMIT)
        history == get_latest_messages(history_limit)
    IN  [recent_messages |-> Reversed(history),
         style_profile |-> _build_style_profile(history)]

\* Lines 341-362: the history fetched with history_limit, the style profile
\* built from it, and the context_messages first entries of it, reversed.
BuildContext(rc) ==
    LET history_limit == Get(rc, "history_limit", DEFAULT_HISTORY_LIMIT)
        context_messages == Get(rc, "context_messages", DEFAULT_CONTEXT_MESSAGES)
        history == get_latest_messages(history_limit)
    IN  [recent_messages |-> Reversed(Take(history, context_messages)),
         style_profile |-> _build_style_profile(history)]

\* Lines 341-373: fetch the history and build the generation context.
History(h) ==
    /\ pc[h] = "history"
    /\ \E ok \in StoreOutcomes :
        /\ StoreCall(ok)
        /\ IF ok THEN Goto(h, "generate") ELSE Raises(h)
        /\ trail' = [trail EXCEPT
                ![h].metadata = IF ok THEN Some(Metadata(rcfg[h])) ELSE @,
                ![h].context = IF ok THEN Some(BuildContext(rcfg[h])) ELSE @,
                ![h].faults = IF ok THEN @ ELSE @ \cup {"get_latest_messages"}]
    /\ UNCHANGED <<store, sent, now, upd, rcfg, reply, intake, call, style, video, push>>

\* The system turn _build_messages writes (lines 49-54): fixed text with the
\* compiled-in sentence cap.
BuiltinSystemPrompt ==
    <<"You are a friendly participant in a Telegram group chat.",
      "Keep replies to DEFAULT_MAX_REPLY_SENTENCES sentences or fewer.">>

\* _style_guidance, ai_adapter.py lines 25-44: the hints, in order; a float
\* field of the profile is the pair <<numerator, denominator>>.
_style_guidance(profile) ==
    LET avg == profile.average_length
        ratio == profile.emoji_ratio
        Hint(text, words) == [hint |-> text, words |-> words]
    IN  (IF profile.common_words # <<>>
         THEN <<Hint("Common slang/words:", profile.common_words)>> ELSE <<>>)
        \o (IF avg[1] <= 40 * avg[2]
             THEN <<Hint("Keep replies short and punchy.", <<>>)>>
             ELSE IF avg[1] >= 120 * avg[2]
             THEN <<Hint("Longer, more detailed replies are acceptable.", <<>>)>>
             ELSE <<>>)
        \o (IF 100 * ratio[1] >= 2 * ratio[2]
             THEN <<Hint("Use emojis occasionally if it feels natural.", <<>>)>>
             ELSE IF 1000 * ratio[1] <= 5 * ratio[2]
             THEN <<Hint("Avoid emojis unless the user uses them first.", <<>>)>>
             ELSE <<>>)

\* The user turns of lines 59-62, for the messages from index i on.
RECURSIVE UserTurns_KeepsEmpty(_, _)
UserTurns_KeepsEmpty(recent_messages, i) ==
    IF i > Len(recent_messages) THEN <<>>
    ELSE <<[role |-> "user",
            content |-> IF IsNone(recent_messages[i].text) THEN <<>>
                        ELSE Val(recent_messages[i].text)]>>
         \o UserTurns_KeepsEmpty(recent_messages, i + 1)

RECURSIVE UserTurns(_, _)
UserTurns(recent_messages, i) ==
    IF i > Len(recent_messages) THEN <<>>
    ELSE IF recent_messages[i].text \in {NoneVal, Some(<<>>)}
    THEN UserTurns(recent_messages, i + 1)
    ELSE <<[role |-> "user", content |-> Val(recent_messages[i].text)]>>
         \o UserTurns(recent_messages, i + 1)

\* _build_messages, lines 47-64: the system turn (the fixed prompt, then the
\* style hint when there is one), then the user turns.
_build_messages(context) ==
    <<[role |-> "system",
       content |-> [prompt |-> BuiltinSystemPrompt,
                    style_hint |-> _style_guidance(context.style_profile)]]>>
    \o UserTurns(context.recent_messages, 1)

\* generate_reply, lines 78-83 and 104: the parameters of the request it
\* issues for a context with the given metadata.
RequestPayload(metadata) ==
    [temperature |-> DEFAULT_MODEL_TEMPERATURE,
     max_tokens |-> DEFAULT_MAX_TOKENS,
     max_reply_sentences |-> DEFAULT_MAX_REPLY_SENTENCES,
     system_prompt |-> BuiltinSystemPrompt]

\* Every way one generate_reply call can go: the answers to its attempts, what
\* it returns and how it went.
GenRuns ==
    {[raised |-> generate_reply(outs).raised, text |-> generate_reply(outs).text,
      class |-> GenClass(outs, generate_reply(outs))] :
        outs \in [1..DEFAULT_OPENAI_MAX_RETRIES -> AttemptOutcomes]}

Generate_Propagates(h) ==
    /\ pc[h] = "generate"
    /\ \E g \in GenRuns :
        /\ reply' = [reply EXCEPT ![h] = g.text]
        /\ IF g.raised THEN Raises(h)
           ELSE IF g.text # <<>> THEN Goto(h, "send") ELSE Goto(h, "mark")
        /\ trail' = [trail EXCEPT
               ![h].gen = g.class,
               ![h].request = Some(RequestPayload(Val(trail[h].metadata))),
               ![h].faults = IF g.raised THEN @ \cup {"generate_reply"} ELSE @]
    /\ UNCHANGED <<store, sent, now, storeFailures, upd, rcfg, intake, call, style, video, push>>

Generate_SendsEmpty(h) ==
    /\ pc[h] = "generate"
    /\ \E g \in GenRuns :
        /\ reply' = [reply EXCEPT ![h] = g.text]
        /\ IF ~g.raised THEN Goto(h, "send") ELSE Goto(h, "mark")
        /\ trail' = [trail EXCEPT
               ![h].gen = g.class,
               ![h].request = Some(RequestPayload(Val(trail[h].metadata))),
               ![h].faults = IF g.raised THEN @ \cup {"generate_reply"} ELSE @]
    /\ UNCHANGED <<store, sent, now, storeFailures, upd, rcfg, intake, call, style, video, push>>

\* Lines 375-377 and 384-387: generate_reply inside the try block.
Generate(h) ==
    /\ pc[h] = "generate"
    /\ \E g \in GenRuns :
        /\ reply' = [reply EXCEPT ![h] = g.text]
        /\ IF ~g.raised /\ g.text # <<>> THEN Goto(h, "send") ELSE Goto(h, "mark")
        /\ trail' = [trail EXCEPT
               ![h].gen = g.class,
               ![h].request = Some(RequestPayload(Val(trail[h].metadata))),
               ![h].faults = IF g.raised THEN @ \cup {"generate_reply"} ELSE @]
    /\ UNCHANGED <<store, sent, now, storeFailures, upd, rcfg, intake, call, style, video, push>>

\* _send_telegram_reply: a sendMessage call that the platform accepted.
\* body.text is the text sent; body.dump the values a get_config reply lists.
\* via: "reply" for line 378, "admin" for an admin command's reply.
_send_telegram_reply(chat_id, body, h, via) ==
    sent' = Append(sent, [chat_id |-> chat_id, text |-> body.text, dump |-> body.dump,
                          update_id |-> upd[h], at |-> now, via |-> via])

Send_StoresAfterFailure(h) ==
    /\ pc[h] = "send"
    /\ \E ok \in BOOLEAN :
        /\ IF ok THEN /\ _send_telegram_reply(reply_chat_id,
                                              [text |-> reply[h], dump |-> EmptyMap],
                                              h, "reply")
                      /\ Goto(h, "save_reply")
                 ELSE UNCHANGED sent /\ Goto(h, "save_reply")
        /\ trail' = [trail EXCEPT
                ![h].sends = IF ok THEN @ + 1 ELSE @,
                ![h].faults = IF ok THEN @ ELSE @ \cup {"send"}]
    /\ UNCHANGED <<store, now, storeFailures, upd, rcfg, reply, intake, call, style, video, push>>

\* Line 378: dispatch; raise_for_status() raises on a platform error.
Send(h) ==
    /\ pc[h] = "send"
    /\ \E ok \in BOOLEAN :
        /\ IF ok THEN /\ _send_telegram_reply(reply_chat_id,
                                              [text |-> reply[h], dump |-> EmptyMap],
                                              h, "reply")
                      /\ Goto(h, "save_reply")
                 ELSE UNCHANGED sent /\ Goto(h, "mark")
        /\ trail' = [trail EXCEPT
                ![h].sends = IF ok THEN @ + 1 ELSE @,
                ![h].faults = IF ok THEN @ ELSE @ \cup {"send"}]
    /\ UNCHANGED <<store, now, storeFailures, upd, rcfg, reply, intake, call, style, video, push>>

save_reply_KeyedByChat(message_id, reply_text) ==
    replies' = Put(replies, reply_chat_id, [reply_text |-> reply_text, date |-> now])

\* save_reply: document(message_id).set({reply_text, date: now})
save_reply(message_id, reply_text) ==
    replies' = Put(replies, message_id, [reply_text |-> reply_text, date |-> now])

\* Line 379; a storage error here is caught by the except clause.
SaveReply(h) ==
    /\ pc[h] = "save_reply"
    /\ \E ok \in StoreOutcomes :
        /\ StoreCall(ok)
        /\ IF ok THEN save_reply(Updates[upd[h]].message_id, reply[h])
                 ELSE UNCHANGED replies
        /\ trail' = [trail EXCEPT
                ![h].replySaves = IF ok THEN @ + 1 ELSE @,
                ![h].faults = IF ok THEN @ ELSE @ \cup {"save_reply"}]
    /\ Goto(h, "mark")
    /\ UNCHANGED <<processed, messages, runtime_config, sent, now, upd, rcfg, reply, intake, call, style, video, push>>

\* A marker collection that keeps the newest marker only.
mark_update_processed_Replace(update_id) ==
    processed' = (update_id :> now)

\* mark_update_processed: document(update_id).set({processed_at: now})
mark_update_processed(update_id) ==
    processed' = Put(processed, update_id, now)

\* A handler that swallows the failure of the final mark and returns.
Mark_SwallowsFailure(h) ==
    /\ pc[h] = "mark"
    /\ \E ok \in StoreOutcomes :
        /\ StoreCall(ok)
        /\ IF ok THEN mark_update_processed(upd[h]) /\ Returns(h)
                 ELSE UNCHANGED processed /\ Returns(h)
        /\ trail' = [trail EXCEPT
                ![h].marks = IF ok THEN @ + 1 ELSE @,
                ![h].faults = IF ok THEN @ ELSE @ \cup {"mark_update_processed"}]
    /\ UNCHANGED <<messages, replies, runtime_config, sent, now, upd, rcfg, reply, intake, call, style, video, push>>

\* Lines 337-339 and 388-390.
Mark(h) ==
    /\ pc[h] = "mark"
    /\ \E ok \in StoreOutcomes :
        /\ StoreCall(ok)
        /\ IF ok THEN mark_update_processed(upd[h]) /\ Returns(h)
                 ELSE UNCHANGED processed /\ Raises(h)
        /\ trail' = [trail EXCEPT
                ![h].marks = IF ok THEN @ + 1 ELSE @,
                ![h].faults = IF ok THEN @ ELSE @ \cup {"mark_update_processed"}]
    /\ UNCHANGED <<messages, replies, runtime_config, sent, now, upd, rcfg, reply, intake, call, style, video, push>>

\* save_runtime_config: the mapping overwrites the keys it provides.
save_runtime_config(mapping) ==
    runtime_config' = [k \in (DOMAIN runtime_config) \cup (DOMAIN mapping) |->
                          IF k \in DOMAIN mapping THEN mapping[k] ELSE runtime_config[k]]

\* clear_runtime_config
clear_runtime_config == runtime_config' = EmptyMap

\* Lines 304-305 and 308-309: _handle_admin_command inside the try block: the
\* store call of the command, then its reply.  Either may raise; the except
\* clause catches it.
AdminCommand(h) ==
    /\ pc[h] = "admin"
    /\ LET u == Updates[upd[h]]
           e == _handle_admin_command(u, rcfg[h])
           replies_ == ~IsNone(e.reply) /\ u.chat_id # 0
       IN  \E sok \in (IF e.write = "none" THEN {TRUE} ELSE StoreOutcomes) :
           \E dok \in (IF replies_ /\ sok THEN BOOLEAN ELSE {TRUE}) :
             /\ StoreCall(sok)
             /\ IF sok /\ e.write = "save" THEN save_runtime_config(e.config)
                ELSE IF sok /\ e.write = "clear" THEN clear_runtime_config
                ELSE UNCHANGED runtime_config
             /\ IF sok /\ dok /\ replies_
                THEN _send_telegram_reply(u.chat_id, Val(e.reply), h, "admin")
                ELSE UNCHANGED sent
             /\ Goto(h, IF sok /\ dok THEN "admin_mark" ELSE "admin_mark_except")
             /\ trail' = [trail EXCEPT
                    ![h].cfgWrites = IF sok /\ e.write # "none" THEN @ + 1 ELSE @,
                    ![h].adminReplies = IF sok /\ dok /\ replies_ THEN @ + 1 ELSE @,
                    ![h].faults = @ \cup (IF sok THEN {} ELSE {"runtime_config"})
                                    \cup (IF dok THEN {} ELSE {"send"})]
    /\ UNCHANGED <<processed, messages, replies, now, upd, rcfg, reply, intake, call, style, video, push>>

AdminMark_Reraises(h) ==
    /\ pc[h] \in {"admin_mark", "admin_mark_except"}
    /\ \E ok \in StoreOutcomes :
        /\ StoreCall(ok)
        /\ IF ok THEN /\ mark_update_processed(upd[h])
                      /\ IF pc[h] = "admin_mark" THEN Returns(h) ELSE Raises(h)
           ELSE /\ UNCHANGED processed
                /\ IF pc[h] = "admin_mark" THEN Goto(h, "admin_mark_except") ELSE Raises(h)
        /\ trail' = [trail EXCEPT
                ![h].marks = IF ok THEN @ + 1 ELSE @,
                ![h].faults = IF ok THEN @ ELSE @ \cup {"mark_update_processed"}]
    /\ UNCHANGED <<messages, replies, runtime_config, sent, now, upd, rcfg, reply, intake, call, style, video, push>>

\* Line 306 (in the try block) and line 310 (in the except clause).  A storage
\* error at line 306 is caught and the marker is written again at line 310.
AdminMark(h) ==
    /\ pc[h] \in {"admin_mark", "admin_mark_except"}
    /\ \E ok \in StoreOutcomes :
        /\ StoreCall(ok)
        /\ IF ok THEN mark_update_processed(upd[h]) /\ Returns(h)
           ELSE /\ UNCHANGED processed
                /\ IF pc[h] = "admin_mark" THEN Goto(h, "admin_mark_except") ELSE Raises(h)
        /\ trail' = [trail EXCEPT
                ![h].marks = IF ok THEN @ + 1 ELSE @,
                ![h].faults = IF ok THEN @ ELSE @ \cup {"mark_update_processed"}]
    /\ UNCHANGED <<messages, replies, runtime_config, sent, now, upd, rcfg, reply, intake, call, style, video, push>>

\* datetime.now() advances.
Tick ==
    /\ now < MaxClock
    /\ now' = now + 1
    /\ UNCHANGED <<store, sent, storeFailures, locals, intake, call, style, video, push>>

\* The updates delivered one at a time: the group-chat messages, the admin
\* DMs /set_cooldown 0, /set_cooldown abc, /reset_config and "hi", and a
\* command sent in the group chat by another user and by the admin.
SeqUpdateIds == (1..11) \cup {19, 20}

\* One delivery at a time: the queue delivers update u and the handler runs to
\* its end before the next delivery.
Deliver(h, u) ==
    /\ \A g \in Handlers : pc[g] \in {"idle", "done"}
    /\ Start(h, u)
    /\ UNCHANGED push

\* Deliveries that overlap: update u is delivered while other handlers run.
ConcUpdateIds == {1, 2, 8, 10}

DeliverConcurrently(h, u) == Start(h, u) /\ UNCHANGED push

Step ==
    \/ \E h \in Handlers : Dedup(h)
    \/ \E h \in Handlers : SaveMessage(h)
    \/ \E h \in Handlers : Policy(h)
    \/ \E h \in Handlers : History(h)
    \/ \E h \in Handlers : Generate(h)
    \/ \E h \in Handlers : Send(h)
    \/ \E h \in Handlers : SaveReply(h)
    \/ \E h \in Handlers : Mark(h)
    \/ \E h \in Handlers : AdminCommand(h)
    \/ \E h \in Handlers : AdminMark(h)
    \/ Tick

Next ==
    \/ \E h \in Handlers, u \in SeqUpdateIds : Deliver(h, u)
    \/ Step

Spec == Init /\ [][Next]_vars

NextConc ==
    \/ \E h \in Handlers, u \in ConcUpdateIds : DeliverConcurrently(h, u)
    \/ Step

SpecConc == Init /\ [][NextConc]_vars

\* ---------------------------------------------------------------- intake
\* An intake stage without the self filter of lines 16-17.
handle_update_NoSelfFilter(b) ==
    IF ~b.has_message THEN "ignored"
    ELSE IF b.has_from /\ b.u.is_bot THEN "ignored"
    ELSE IF ~b.has_from THEN "ignored"
    ELSE LET is_admin_dm ==
                 /\ admin_user_id # 0
                 /\ b.u.chat_type = "private"
                 /\ b.u.from_id = Some(admin_user_id)
         IN  IF b.u.chat_id # ingest_chat_id /\ ~is_admin_dm THEN "ignored"
             ELSE "publish"

handle_update_NoChatFilter(b) ==
    IF ~b.has_message THEN "ignored"
    ELSE IF b.has_from /\ b.u.is_bot THEN "ignored"
    ELSE IF bot_user_id # 0 /\ b.has_from /\ b.u.from_id = Some(bot_user_id) THEN "ignored"
    ELSE IF ~b.has_from THEN "ignored"
    ELSE "publish"

\* handle_update, lines 10-30: "ignored", or "publish" when it goes on to
\* publish_update.
handle_update(b) ==
    IF ~b.has_message THEN "ignored"
    ELSE IF b.has_from /\ b.u.is_bot THEN "ignored"
    ELSE IF bot_user_id # 0 /\ b.has_from /\ b.u.from_id = Some(bot_user_id) THEN "ignored"
    ELSE IF ~b.has_from THEN "ignored"
    ELSE LET is_admin_dm ==
                 /\ admin_user_id # 0
                 /\ b.u.chat_type = "private"
                 /\ b.u.from_id = Some(admin_user_id)
         IN  IF b.u.chat_id # ingest_chat_id /\ ~is_admin_dm THEN "ignored"
             ELSE "publish"

webhook_check_BodyFirst(secret, b) ==
    IF b.kind # "update" THEN 400
    ELSE IF secret # webhook_secret THEN 401
    ELSE 0

\* telegram_webhook, lines 23-29: the status answered before handle_update
\* is called; 0 when the request goes on to handle_update.
webhook_check(secret, b) ==
    IF secret # webhook_secret THEN 401
    ELSE IF b.kind # "update" THEN 400
    ELSE 0

\* publish_update: the body is serialised and published to the topic.
publish_update(b) == published' = Append(published, b)

telegram_webhook_AcceptsUnconfirmed(secret, i) ==
    /\ webhook.n < MaxRequests
    /\ LET b == WebhookBodies[i]
           check == webhook_check(secret, b)
           Answer(status, res) ==
               webhook' = [n |-> webhook.n + 1, secret |-> secret, body |-> i,
                           status |-> status, result |-> res,
                           before |-> Len(published)]
       IN  IF check # 0
           THEN Answer(check, "none") /\ UNCHANGED published
           ELSE IF handle_update(b) = "ignored"
           THEN Answer(200, "ignored") /\ UNCHANGED published
           ELSE \E ok \in BOOLEAN :
                   IF ok THEN publish_update(b) /\ Answer(200, "published")
                         ELSE UNCHANGED published /\ Answer(200, "raised")
    /\ UNCHANGED <<store, sent, now, storeFailures, locals, push, call, style, video>>

\* The route POST /telegram/webhook handles one request with the given secret
\* header and body.  publish_update may raise (publish failure or timeout);
\* the route answers 500 then.
telegram_webhook(secret, i) ==
    /\ webhook.n < MaxRequests
    /\ LET b == WebhookBodies[i]
           check == webhook_check(secret, b)
           Answer(status, res) ==
               webhook' = [n |-> webhook.n + 1, secret |-> secret, body |-> i,
                           status |-> status, result |-> res,
                           before |-> Len(published)]
       IN  IF check # 0
           THEN Answer(check, "none") /\ UNCHANGED published
           ELSE IF handle_update(b) = "ignored"
           THEN Answer(200, "ignored") /\ UNCHANGED published
           ELSE \E ok \in BOOLEAN :
                   IF ok THEN publish_update(b) /\ Answer(200, "published")
                         ELSE UNCHANGED published /\ Answer(500, "raised")
    /\ UNCHANGED <<store, sent, now, storeFailures, locals, push, call, style, video>>

NextIntake ==
    \E secret \in Secrets, i \in DOMAIN WebhookBodies : telegram_webhook(secret, i)

SpecIntake == Init /\ [][NextIntake]_vars

\* ---------------------------------------------------------------- pipeline
\* The two stages composed: the queue holds what the intake published, and
\* queue message number h is handled by handler h.  The first delivery of a
\* queue message.
DeliverPublished(h) ==
    /\ h \in DOMAIN published
    /\ Deliver(h, published[h].update_id)

\* The queue delivers again a message whose last delivery was answered with an
\* error (process_update raised): process_update starts afresh, lines 286-298.
Redeliver(h) ==
    /\ pc[h] = "done"
    /\ result[h] = "raised"
    /\ \A g \in Handlers : pc[g] \in {"idle", "done"}
    /\ \E ok \in StoreOutcomes :
        /\ StoreCall(ok)
        /\ IF ok THEN /\ pc' = [pc EXCEPT ![h] = "dedup"]
                      /\ result' = [result EXCEPT ![h] = "none"]
                      /\ rcfg' = [rcfg EXCEPT ![h] = runtime_config]
                 ELSE Raises(h) /\ UNCHANGED rcfg
        /\ trail' = [trail EXCEPT
                ![h] = [InitTrail EXCEPT
                          !.markedAtStart = upd[h] \in DOMAIN processed,
                          !.faults = IF ok THEN {} ELSE {"get_runtime_config"}]]
    /\ reply' = [reply EXCEPT ![h] = <<>>]
    /\ UNCHANGED <<store, sent, now, upd, intake, call, style, video, push>>

NextPipeline ==
    \/ \E secret \in Secrets, i \in DOMAIN WebhookBodies : telegram_webhook(secret, i)
    \/ \E h \in Handlers : DeliverPublished(h)
    \/ \E h \in Handlers : Redeliver(h)
    \/ Step

SpecPipeline == Init /\ [][NextPipeline]_vars

\* A handler at the admin dispatch leaves it.  AdminCommand(h) is enabled
\* exactly when pc[h] = "admin", as this action is, and its step moves pc[h] on,
\* so weak fairness of this action says what weak fairness of AdminCommand(h)
\* says: the handler does not stay at the dispatch forever.
AdminDispatchEnds(h) ==
    /\ pc[h] = "admin"
    /\ pc' = [pc EXCEPT ![h] = "admin_mark"]
    /\ UNCHANGED <<store, sent, now, storeFailures, upd, rcfg, reply, result, trail,
                   intake, call, style, video, push>>

\* At-least-once delivery: a published message is delivered, and delivered
\* again after every error response; a handler that started runs to its end
\* (no cancellation).  The storage errors are finitely many
\* (MaxStoreFailures), so store operations eventually succeed.
SpecPipelineLive ==
    /\ Init
    /\ [][NextPipeline]_vars
    /\ WF_vars(\/ \E h \in Handlers : DeliverPublished(h)
               \/ \E h \in Handlers : Redeliver(h))
    /\ WF_vars(\E h \in Handlers :
                 \/ Dedup(h) \/ SaveMessage(h) \/ Policy(h) \/ History(h)
                 \/ Generate(h) \/ Send(h) \/ SaveReply(h) \/ Mark(h) \/ AdminMark(h))
    /\ WF_vars(\E h \in Handlers : AdminDispatchEnds(h))

\* ---------------------------------------------------------------- history
\* Messages of the ingest chat stored by earlier deliveries; their ids are
\* not in date order.
StoredMessage(mid, fid, txt, date) ==
    [message_id |-> mid, text |-> txt, date |-> date, user_id |-> Some(fid)]

StoredHistory ==
    (41 :> StoredMessage(41, 10, Some(TextHi), -1))
    @@ (42 :> StoredMessage(42, 11, Some(TextQuestion), -3))
    @@ (43 :> StoredMessage(43, 12, NoneVal, -2))

\* Runtime configs with which every message is answered, and with the
\* history_limit and context_messages overrides absent, context_messages
\* below history_limit, above it, and both above the number of messages.
HistoryConfigs ==
    LET always == ("reply_chance" :> FloatScale) @@ ("cooldown_seconds" :> 0)
    IN  {always,
         always @@ ("history_limit" :> 3) @@ ("context_messages" :> 2),
         always @@ ("history_limit" :> 2) @@ ("context_messages" :> 3),
         always @@ ("history_limit" :> 9) @@ ("context_messages" :> 9)}

InitHistory ==
    /\ processed = EmptyMap
    /\ messages = StoredHistory
    /\ replies = EmptyMap
    /\ runtime_config \in HistoryConfigs
    /\ sent = <<>>
    /\ now = 0
    /\ storeFailures = 0
    /\ pc = [h \in Handlers |-> "idle"]
    /\ upd = [h \in Handlers |-> 0]
    /\ rcfg = [h \in Handlers |-> EmptyMap]
    /\ reply = [h \in Handlers |-> <<>>]
    /\ result = [h \in Handlers |-> "none"]
    /\ trail = [h \in Handlers |-> InitTrail]
    /\ published = <<>>
    /\ webhook = NoRequest
    /\ push = InitPush("aud", FALSE)
    /\ call = NoCall
    /\ style = NoStyle
    /\ video = NoVideo

\* Updates 1 and 30 carry the same message_id with different text; update 8
\* is an admin command.
HistoryUpdateIds == {1, 2, 8, 30}

NextHistory ==
    \/ \E h \in Handlers, u \in HistoryUpdateIds : Deliver(h, u)
    \/ Step

SpecHistory == InitHistory /\ [][NextHistory]_vars

\* ---------------------------------------------------------------- style profile
TextSlang == <<"H", "i", " ", "h", "i", " ", "a", "_", "1">>
TextEmoji == <<"b", " ", "c", " ", "d", "<grin>">>
TextShout == <<"e", " ", "f", ",", " ", "H", "I", "!">>
TextOnlyEmoji == <<"<fire>">>

\* The text field of a stored message: absent, empty, or a text.
StyleTexts ==
    {NoneVal, Some(<<>>), Some(TextSlang), Some(TextEmoji), Some(TextShout),
     Some(TextOnlyEmoji)}

\* The histories get_latest_messages can hand over: up to MaxStyleMessages
\* stored messages, newest first.
StyleHistories ==
    UNION {{[i \in 1..n |-> StoredMessage(40 + i, 10, txt[i], 0 - i)] :
                txt \in [1..n -> StyleTexts]} : n \in 0..MaxStyleMessages}

\* One call of _build_style_profile.
CallBuildStyleProfile(history) ==
    /\ style.n < MaxCalls
    /\ \E profile \in StyleProfiles(history) :
          style' = [n |-> style.n + 1, history |-> history, profile |-> profile,
                    messages |-> <<>>]
    /\ UNCHANGED <<store, sent, now, storeFailures, locals, intake, push, call, video>>

\* One call of _build_messages, on a context whose recent messages are the
\* given ones, oldest first, with a style profile built from them.
CallBuildMessages(recent_messages) ==
    /\ style.n < MaxCalls
    /\ \E profile \in StyleProfiles(recent_messages) :
          style' = [n |-> style.n + 1, history |-> recent_messages, profile |-> profile,
                    messages |-> _build_messages([recent_messages |-> recent_messages,
                                                  style_profile |-> profile])]
    /\ UNCHANGED <<store, sent, now, storeFailures, locals, intake, push, call, video>>

NextStyle ==
    \/ \E history \in StyleHistories : CallBuildStyleProfile(history)
    \/ \E recent_messages \in StyleHistories : CallBuildMessages(recent_messages)

SpecStyle == Init /\ [][NextStyle]_vars

\* ---------------------------------------------------------------- video_processor
\* VideoProcessor.__init__, lines 26-27.  Sizes are counted in units of 50 MB.
max_video_size == 2
max_frames == 10

\* What a method hands to its caller: a value, or an exception.
Returned(value) == [raised |-> FALSE, value |-> value]
Raised == [raised |-> TRUE, value |-> {}]

RECURSIVE DownloadLoop(_, _)
\* Lines 61-76: the chunks are added up; the download is given up (None) when
\* the running size passes max_video_size.
DownloadLoop(chunks, downloaded) ==
    IF chunks = <<>> THEN Some(downloaded)
    ELSE IF Head(chunks) > 0 /\ downloaded + Head(chunks) > max_video_size THEN NoneVal
    ELSE DownloadLoop(Tail(chunks), downloaded + Head(chunks))

\* download_video, lines 40-80.  env.head: the HEAD request raised
\* ("conn_error"), or the content-length header is absent ("no_length"), not
\* a number ("bad_length"), within the limit ("small") or above it
\* ("too_large"); env.get: the GET request raised, was answered with an error
\* status, or streams env.chunks.  The value is the size of the content.
download_video(env) ==
    IF env.head \in {"conn_error", "bad_length"} THEN Returned(NoneVal)
    ELSE IF env.head = "too_large" THEN Returned(NoneVal)
    ELSE IF env.get \in {"conn_error", "http_error"} THEN Returned(NoneVal)
    ELSE Returned(DownloadLoop(env.chunks, 0))

RECURSIVE ExtractLoop(_, _, _, _)
\* Lines 117-143: the frames read so far and the frames kept; a frame is kept
\* when its index is a multiple of the interval.  An interval of 0 raises
\* ZeroDivisionError at line 123, frame number env.bad_frame raises in the
\* conversion of lines 125-140.
ExtractLoop(env, interval, frame_count, frames) ==
    IF Len(frames) >= max_frames THEN [raised |-> FALSE, frames |-> frames]
    ELSE IF frame_count >= env.nframes THEN [raised |-> FALSE, frames |-> frames]
    ELSE IF interval = 0 THEN [raised |-> TRUE, frames |-> frames]
    ELSE IF frame_count % interval = 0
    THEN (IF env.bad_frame = frame_count + 1
          THEN [raised |-> TRUE, frames |-> frames]
          ELSE ExtractLoop(env, interval, frame_count + 1, Append(frames, frame_count)))
    ELSE ExtractLoop(env, interval, frame_count + 1, frames)

\* extract_frames, lines 93-177: whatever happens inside the try block, the
\* frames collected so far are returned.  env.fps is in tenths of a frame per
\* second; frame_interval is 2 seconds.
extract_frames(env) ==
    IF env.tmp = "raise" THEN Returned(<<>>)
    ELSE IF ~env.opened THEN Returned(<<>>)
    ELSE LET fps == IF env.fps <= 0 THEN 300 ELSE env.fps
             frame_interval_count == (fps * 2) \div 10
         IN  Returned(ExtractLoop(env, frame_interval_count, 0, <<>>).frames)

\* A get_media_info whose exceptions reach the caller.
get_media_info_Unguarded(env) ==
    IF env.info \in {"conn_error", "http_error", "bad_json"} THEN Raised
    ELSE IF env.info = "null" THEN Returned(NoneVal)
    ELSE Returned(Some([media_type |-> IF env.info = "image" THEN "IMAGE" ELSE "VIDEO",
                        media_url |-> IF env.info = "video" THEN "url" ELSE ""]))

\* get_media_info, lines 189-208.  env.info: the request raised, was answered
\* with an error status, its body is not JSON, is null, or describes an image,
\* a video without media_url ("video_no_url") or a video.
get_media_info(env) ==
    IF env.info \in {"conn_error", "http_error", "bad_json"} THEN Returned(NoneVal)
    ELSE IF env.info = "null" THEN Returned(NoneVal)
    ELSE Returned(Some([media_type |-> IF env.info = "image" THEN "IMAGE" ELSE "VIDEO",
                        media_url |-> IF env.info = "video" THEN "url" ELSE ""]))

\* process_video_url, lines 220-225; no try block of its own.
process_video_url(env) ==
    LET video_content == download_video(env)
    IN  IF video_content.raised THEN Raised
        ELSE IF video_content.value \in {NoneVal, Some(0)} THEN Returned(NoneVal)
        ELSE LET frames == extract_frames(env)
             IN  IF frames.raised THEN Raised
                 ELSE IF frames.value = <<>> THEN Returned(NoneVal)
                 ELSE Returned(Some(frames.value))

\* process_media_id, lines 237-254; no try block of its own.
process_media_id(env) ==
    LET media_info == get_media_info(env)
    IN  IF media_info.raised THEN Raised
        ELSE IF IsNone(media_info.value) THEN Returned(NoneVal)
        ELSE IF Val(media_info.value).media_type # "VIDEO" THEN Returned(NoneVal)
        ELSE IF Val(media_info.value).media_url = "" THEN Returned(NoneVal)
        ELSE process_video_url(env)

\* What the environment of a call can do: the API answer, the two download
\* requests, the temporary file, the decoder.
VideoEnvs ==
    [info : {"conn_error", "http_error", "bad_json", "null", "image", "video_no_url", "video"},
     head : {"conn_error", "no_length", "bad_length", "small", "too_large"},
     get : {"conn_error", "http_error", "ok"},
     chunks : {<<>>, <<1>>, <<0, 1>>, <<1, 1>>, <<2, 1>>},
     tmp : {"ok", "raise"},
     opened : BOOLEAN,
     fps : {0, 3, 10},
     nframes : {0, 1, 5, MaxVideoFrames - 3, MaxVideoFrames},
     bad_frame : {0, 1, 3}]

\* The part of the environment a method does not reach, fixed.
DownloadOnly(env) ==
    [env EXCEPT !.info = "video", !.tmp = "ok", !.opened = TRUE, !.fps = 10,
                !.nframes = 0, !.bad_frame = 0]
ExtractOnly(env) ==
    [env EXCEPT !.info = "video", !.head = "small", !.get = "ok", !.chunks = <<1>>]
InfoOnly(env) == [ExtractOnly(DownloadOnly(env)) EXCEPT !.info = env.info]
\* process_video_url reaches the decoder only with a downloaded content, and
\* process_media_id reaches the download only for a video with a URL.
UrlOnly(env) ==
    IF download_video(env).value \in {NoneVal, Some(0)}
    THEN [DownloadOnly(env) EXCEPT !.info = env.info]
    ELSE env
MediaOnly(env) == IF env.info = "video" THEN UrlOnly(env) ELSE InfoOnly(env)

\* One call of a method of VideoProcessor.
CallVideo(fn, env, out) ==
    /\ video.n < MaxCalls
    /\ video' = [n |-> video.n + 1, fn |-> fn, env |-> env, out |-> out]
    /\ UNCHANGED <<store, sent, now, storeFailures, locals, intake, push, call, style>>

\* The environments that differ in something the method reaches.
DownloadEnvs == {env \in VideoEnvs : env = DownloadOnly(env)}
InfoEnvs == {env \in VideoEnvs : env = InfoOnly(env)}
ExtractEnvs == {env \in VideoEnvs : env = ExtractOnly(env)}
UrlEnvs == {env \in VideoEnvs : env.info = "video" /\ env = UrlOnly(env)}
MediaEnvs == {env \in VideoEnvs : env = MediaOnly(env)}

NextVideo ==
    \/ \E env \in DownloadEnvs : CallVideo("download_video", env, download_video(env))
    \/ \E env \in InfoEnvs : CallVideo("get_media_info", env, get_media_info(env))
    \/ \E env \in ExtractEnvs : CallVideo("extract_frames", env, extract_frames(env))
    \/ \E env \in UrlEnvs : CallVideo("process_video_url", env, process_video_url(env))
    \/ \E env \in MediaEnvs : CallVideo("process_media_id", env, process_media_id(env))

SpecVideo == Init /\ [][NextVideo]_vars

\* ---------------------------------------------------------------- generation
\* One call of generate_reply; outs[a] is what the service answers to
\* attempt a.
CallGenerate(outs) ==
    /\ call.n < MaxCalls
    /\ call' = [n |-> call.n + 1, outs |-> outs, g |-> generate_reply(outs)]
    /\ UNCHANGED <<store, sent, now, storeFailures, locals, intake, push, style, video>>

NextGen ==
    \E outs \in [1..DEFAULT_OPENAI_MAX_RETRIES -> AttemptOutcomes] : CallGenerate(outs)

SpecGen == Init /\ [][NextGen]_vars

\* ---------------------------------------------------------------- push endpoint
\* _verify_pubsub_jwt returns (TRUE) or raises (FALSE).
_verify_pubsub_jwt(auth) == auth = "valid"

handle_pubsub_push_NoAuth(req, audience, skip_auth) ==
    IF req.data \in {"missing", "empty"} THEN "envelope"
    ELSE IF req.data = "undecodable" THEN "decode"
    ELSE "process"

\* handle_pubsub_push, lines 30-55: where it raises ("auth": lines 32-35,
\* "envelope": lines 43-52, "decode": lines 54-55), or "process" when it goes
\* on to process_update.
handle_pubsub_push(req, audience, skip_auth) ==
    IF ~skip_auth /\ (audience = "" \/ ~_verify_pubsub_jwt(req.auth)) THEN "auth"
    ELSE IF req.data \in {"missing", "empty"} THEN "envelope"
    ELSE IF req.data = "undecodable" THEN "decode"
    ELSE "process"

\* pubsub_push, lines 22-29: the status answered when the request does not
\* reach process_update; 0 when it does.
pubsub_push_status(stage) ==
    IF stage = "body" THEN 400
    ELSE IF stage \in {"auth", "envelope", "decode"} THEN 500
    ELSE 0

\* pubsub_push answering 200 whether process_update returned or raised.
PushResponse_AlwaysOk(h) ==
    IF result[h] \in {"raised", "returned"} THEN 200 ELSE 0

\* pubsub_push, lines 26-31: the status answered once process_update has
\* returned or raised; 0 while it runs.
PushResponse(h) ==
    IF result[h] = "raised" THEN 500
    ELSE IF result[h] = "returned" THEN 200
    ELSE 0

\* The route POST /pubsub/push handles one request.  A request it does not
\* reject starts process_update on the update it carries.
pubsub_push(req) ==
    /\ push.n < MaxPushes
    /\ LET stage == IF req.payload # "envelope" THEN "body"
                    ELSE handle_pubsub_push(req, push.audience, push.skip_auth)
       IN  IF stage # "process"
           THEN /\ push' = [push EXCEPT !.n = @ + 1, !.req = req, !.stage = stage,
                                        !.status = pubsub_push_status(stage)]
                /\ UNCHANGED <<store, sent, now, storeFailures, locals, intake, call, style, video>>
           ELSE \E h \in Handlers :
                /\ \A g \in Handlers : pc[g] \in {"idle", "done"}
                /\ Start(h, req.update)
                /\ push' = [push EXCEPT !.n = @ + 1, !.req = req, !.stage = stage,
                                        !.status = pubsub_push_status(stage),
                                        !.started[h] = req]

\* The worker service started with any PUBSUB_AUDIENCE and SKIP_PUBSUB_AUTH.
InitWorker ==
    /\ processed = EmptyMap
    /\ messages = EmptyMap
    /\ replies = EmptyMap
    /\ runtime_config = EmptyMap
    /\ sent = <<>>
    /\ now = 0
    /\ storeFailures = 0
    /\ pc = [h \in Handlers |-> "idle"]
    /\ upd = [h \in Handlers |-> 0]
    /\ rcfg = [h \in Handlers |-> EmptyMap]
    /\ reply = [h \in Handlers |-> <<>>]
    /\ result = [h \in Handlers |-> "none"]
    /\ trail = [h \in Handlers |-> InitTrail]
    /\ published = <<>>
    /\ webhook = NoRequest
    /\ push \in {InitPush(audience, skip_auth) :
                    audience \in {"", "aud"}, skip_auth \in BOOLEAN}
    /\ call = NoCall
    /\ style = NoStyle
    /\ video = NoVideo

NextPush ==
    \/ \E req \in PushRequests : pubsub_push(req)
    \/ Step

SpecPush == InitWorker /\ [][NextPush]_vars

\* Runtime configs that earlier admin commands can have left in the store:
\* none, or overrides written by valid set commands.
StoredConfigs ==
    {EmptyMap,
     ("reply_chance" :> FloatScale) @@ ("cooldown_seconds" :> 0) @@ ("max_tokens" :> 7)}

\* The store as a running deployment finds it: a runtime config may be there.
InitAdmin ==
    /\ processed = EmptyMap
    /\ messages = EmptyMap
    /\ replies = EmptyMap
    /\ runtime_config \in StoredConfigs
    /\ sent = <<>>
    /\ now = 0
    /\ storeFailures = 0
    /\ pc = [h \in Handlers |-> "idle"]
    /\ upd = [h \in Handlers |-> 0]
    /\ rcfg = [h \in Handlers |-> EmptyMap]
    /\ reply = [h \in Handlers |-> <<>>]
    /\ result = [h \in Handlers |-> "none"]
    /\ trail = [h \in Handlers |-> InitTrail]
    /\ published = <<>>
    /\ webhook = NoRequest
    /\ push = InitPush("aud", FALSE)
    /\ call = NoCall
    /\ style = NoStyle
    /\ video = NoVideo

\* The updates of the admin scenarios, delivered one at a time: a question
\* and a plain message in the group chat, every admin DM, and the commands
\* sent in the group chat or by another user in a private chat.
AdminUpdateIds == {1, 2} \cup (8..29)

NextAdmin ==
    \/ \E h \in Handlers, u \in AdminUpdateIds : Deliver(h, u)
    \/ Step

SpecAdmin == InitAdmin /\ [][NextAdmin]_vars

\* Admin commands whose handlers overlap, on a store that may hold overrides:
\* a group message, /reset_config, /set_max_tokens 5 and
\* /set_reply_chance 0.5.
AdminConcUpdateIds == {1, 10, 21, 25}

NextAdminConc ==
    \/ \E h \in Handlers, u \in AdminConcUpdateIds : DeliverConcurrently(h, u)
    \/ Step

SpecAdminConc == InitAdmin /\ [][NextAdminConc]_vars

\* ---------------------------------------------------------------- properties
U(h) == Updates[upd[h]]
TextOf(u) == IF IsNone(u.text) THEN <<>> ELSE Val(u.text)
HasQuestion(u) == Contains(<<"?">>, TextOf(u))
HasMention(u) == Contains(<<"@">> \o bot_username, TextOf(u))

\* The store calls that can raise a storage error.
StoreFaults ==
    {"get_runtime_config", "is_update_processed", "save_message", "get_last_reply_time",
     "get_latest_messages", "save_reply", "mark_update_processed", "runtime_config"}

NoStoreFault(h) == trail[h].faults \cap StoreFaults = {}

\* The generated replies dispatched for update u.
SentFor(u) == {i \in DOMAIN sent : sent[i].update_id = u /\ sent[i].via = "reply"}

\* h is a finished first run of its update: no delivery of the update finished
\* before it started, and none of its store calls failed.
FirstRun(h) ==
    /\ pc[h] = "done"
    /\ trail[h].after = {}
    /\ ~trail[h].markedAtStart
    /\ NoStoreFault(h)

\* h is a finished second run: it started after a first run of the same
\* update had finished.
SecondRun(h) ==
    /\ pc[h] = "done"
    /\ NoStoreFault(h)
    /\ \E g \in trail[h].after : FirstRun(g)

AddsNothing(h) ==
    /\ trail[h].saves = 0
    /\ trail[h].sends = 0
    /\ trail[h].replySaves = 0
    /\ trail[h].marks = 0
    /\ trail[h].cfgWrites = 0
    /\ trail[h].adminReplies = 0

\* C1 as stated: for every update, two runs of process_update in sequence with
\* no store failure leave exactly one stored message, at most one stored reply
\* and one processed marker, and the second run adds nothing.
C1_IdempotentAnyUpdate ==
    \A h \in Handlers :
        /\ FirstRun(h) =>
              /\ trail[h].saves = 1
              /\ U(h).message_id \in DOMAIN messages
              /\ trail[h].replySaves <= 1
              /\ trail[h].marks = 1
              /\ upd[h] \in DOMAIN processed
        /\ SecondRun(h) => AddsNothing(h)

\* C1 amended: the same, except that an admin DM is never stored as a message:
\* the first run stores exactly one message for an update that is not an admin
\* DM and none for an admin DM.
C1_Idempotent ==
    \A h \in Handlers :
        /\ FirstRun(h) =>
              /\ trail[h].saves = (IF _is_admin_dm(U(h)) THEN 0 ELSE 1)
              /\ ~_is_admin_dm(U(h)) => U(h).message_id \in DOMAIN messages
              /\ trail[h].replySaves <= 1
              /\ trail[h].marks = 1
              /\ upd[h] \in DOMAIN processed
        /\ SecondRun(h) => AddsNothing(h)

C1_Witness ==
    \E h \in Handlers :
        /\ SecondRun(h)
        /\ ~_is_admin_dm(U(h))
        /\ \E g \in trail[h].after : FirstRun(g) /\ trail[g].replySaves = 1

C3_DuplicateWritesNothing ==
    \A h \in Handlers : trail[h].markedAtStart => AddsNothing(h)

C3_Witness ==
    \E h \in Handlers :
        trail[h].markedAtStart /\ pc[h] = "done" /\ result[h] = "returned"

\* C4: a hard failure of the generation call or of the dispatch, in the reply
\* path of an update that is not an admin DM, is caught: process_update marks
\* the update processed and returns (unless the marker write itself fails).
C4_UpstreamFailureCaught ==
    \A h \in Handlers :
        ( /\ pc[h] = "done"
          /\ ~_is_admin_dm(U(h))
          /\ trail[h].faults \cap {"generate_reply", "send"} # {}
          /\ "mark_update_processed" \notin trail[h].faults )
        => /\ result[h] = "returned"
           /\ trail[h].marks = 1
           /\ upd[h] \in DOMAIN processed

C4_Witness ==
    \E h1, h2 \in Handlers :
        /\ pc[h1] = "done" /\ "generate_reply" \in trail[h1].faults
        /\ pc[h2] = "done" /\ "send" \in trail[h2].faults
        /\ result[h1] = "returned" /\ result[h2] = "returned"
        /\ ~_is_admin_dm(U(h1)) /\ ~_is_admin_dm(U(h2))

\* C5 as stated: an exception raised by the last-reply lookup inside
\* should_reply, or by the history fetch, does not prevent the update from
\* being marked processed.
C5_LookupFailureStillMarks ==
    \A h \in Handlers :
        ( /\ pc[h] = "done"
          /\ trail[h].faults \cap {"get_last_reply_time", "get_latest_messages"} # {} )
        => upd[h] \in DOMAIN processed

\* C6: when every attempt of generate_reply is answered 429, it returns empty
\* text; process_update dispatches nothing, stores no reply and marks the update.
C6_RateLimitExhausted ==
    \A h \in Handlers :
        trail[h].gen = "exhausted_429" =>
            /\ reply[h] = <<>>
            /\ trail[h].sends = 0
            /\ trail[h].replySaves = 0
            /\ (pc[h] = "done" /\ "mark_update_processed" \notin trail[h].faults)
                  => /\ result[h] = "returned"
                     /\ trail[h].marks = 1
                     /\ upd[h] \in DOMAIN processed

C6_Witness ==
    \E h \in Handlers :
        /\ trail[h].gen = "exhausted_429"
        /\ pc[h] = "done"
        /\ result[h] = "returned"

\* C7: the message of an update that is not an admin DM is in the chat history
\* when should_reply is evaluated, and every such update that is marked
\* processed has its message stored, reply or not.
C7_StoredBeforePolicy ==
    /\ \A h \in Handlers :
          (trail[h].should # "none" \/ pc[h] \in {"policy", "history", "generate", "send",
                                                  "save_reply", "mark"})
              => /\ trail[h].saves = 1
                 /\ U(h).message_id \in DOMAIN messages
                 /\ messages[U(h).message_id].text = U(h).text
    /\ \A h \in Handlers :
          trail[h].should # "none" => trail[h].savedBeforePolicy
    /\ \A u \in DOMAIN processed :
          ~_is_admin_dm(Updates[u]) => Updates[u].message_id \in DOMAIN messages

C7_Witness ==
    \E h \in Handlers :
        /\ pc[h] = "done"
        /\ trail[h].should = "no"
        /\ trail[h].marks = 1
        /\ U(h).message_id \in DOMAIN messages

\* C8: on a first delivery of an update with a '?' from a sender that is not a
\* bot, when generate_reply returns non-empty text R and nothing fails: exactly
\* R is sent to the reply chat, R is stored as the reply keyed by the message
\* id, and the update is marked processed.
C8_ReplyDispatchedAndStored ==
    \A h \in Handlers :
        ( /\ pc[h] = "done"
          /\ trail[h].after = {} /\ ~trail[h].markedAtStart
          /\ ~U(h).is_bot /\ HasQuestion(U(h))
          /\ trail[h].gen = "text"
          /\ trail[h].faults = {} )
        => /\ reply[h] # <<>>
           /\ trail[h].sends = 1
           /\ \A i \in SentFor(upd[h]) :
                 sent[i].chat_id = reply_chat_id /\ sent[i].text = reply[h]
           /\ Cardinality(SentFor(upd[h])) = 1
           /\ U(h).message_id \in DOMAIN replies
           /\ replies[U(h).message_id].reply_text = reply[h]
           /\ upd[h] \in DOMAIN processed
           /\ result[h] = "returned"

C8_Witness ==
    \E h \in Handlers :
        /\ pc[h] = "done"
        /\ trail[h].after = {} /\ ~trail[h].markedAtStart
        /\ HasQuestion(U(h))
        /\ trail[h].gen = "text"
        /\ trail[h].faults = {}
        /\ Cardinality(SentFor(upd[h])) = 1

\* The sender is one should_reply does not refuse: not a bot, with an id that
\* is not the bot's own.
EligibleSender(u) ==
    /\ ~u.is_bot
    /\ ~IsNone(u.from_id)
    /\ Val(u.from_id) # bot_user_id

Chances == 0..FloatScale
Draws == 0..(FloatScale - 1)
Cooldowns == 0..(MaxClock + 1)

\* C9 as stated: should_reply is true whenever the text contains '?',
\* whatever the cooldown state and the random draw.
C9_QuestionAlwaysReplies ==
    \A h \in Handlers :
        (trail[h].should # "none" /\ HasQuestion(U(h))) => trail[h].should = "yes"

\* C9 amended: should_reply is true whenever the text contains '?' and the
\* sender is not a bot, has an id and is not the bot itself, whatever the
\* cooldown state and the random draw.
C9_QuestionFromEligibleSenderReplies ==
    \A h \in Handlers :
        (upd[h] # 0 /\ HasQuestion(U(h)) /\ EligibleSender(U(h))) =>
            /\ trail[h].should # "no"
            /\ \A draw \in Draws, chance \in Chances, cooldown \in Cooldowns :
                  _should_reply(U(h), get_last_reply_time, now, draw, chance, cooldown)

C9_Witness ==
    \E h \in Handlers :
        /\ trail[h].should = "yes"
        /\ HasQuestion(U(h)) /\ EligibleSender(U(h))
        /\ trail[h].coolingDown

\* C10: for an update whose sender is flagged bot or is the bot itself,
\* should_reply is false and no generated reply is dispatched, even if the text
\* has a '?' or a mention.
C10_BotLoopGuard ==
    \A h \in Handlers :
        (upd[h] # 0 /\ (U(h).is_bot \/ U(h).from_id = Some(bot_user_id))) =>
            /\ trail[h].should # "yes"
            /\ trail[h].sends = 0
            /\ SentFor(upd[h]) = {}
            /\ \A draw \in Draws, chance \in Chances, cooldown \in Cooldowns :
                  ~_should_reply(U(h), get_last_reply_time, now, draw, chance, cooldown)

C10_Witness ==
    \E h1, h2 \in Handlers :
        /\ pc[h1] = "done" /\ pc[h2] = "done"
        /\ trail[h1].should = "no" /\ trail[h2].should = "no"
        /\ U(h1).is_bot /\ HasQuestion(U(h1))
        /\ U(h2).from_id = Some(bot_user_id) /\ HasMention(U(h2))

\* C11: for a sender that is not a bot, has an id and is not the bot itself, a
\* text with the @botusername mention makes should_reply true whatever the
\* cooldown state and the draw; a refusal of such a sender's message happens
\* only on the probabilistic path (no mention, no '?').
C11_MentionOverridesCooldown ==
    \A h \in Handlers :
        /\ (upd[h] # 0 /\ HasMention(U(h)) /\ EligibleSender(U(h))) =>
              /\ trail[h].should # "no"
              /\ \A draw \in Draws, chance \in Chances, cooldown \in Cooldowns :
                    _should_reply(U(h), get_last_reply_time, now, draw, chance, cooldown)
        /\ (trail[h].should = "no" /\ EligibleSender(U(h))) =>
              ~HasMention(U(h)) /\ ~HasQuestion(U(h))

C11_Witness ==
    \E h \in Handlers :
        /\ trail[h].should = "yes"
        /\ HasMention(U(h)) /\ ~HasQuestion(U(h)) /\ EligibleSender(U(h))
        /\ trail[h].coolingDown

\* C12 as stated: a reply chosen on the probabilistic path (text with no
\* mention and no '?') is never dispatched less than cooldown_seconds after a
\* reply dispatched before it, whatever the interleaving of the handlers.
C12_CooldownBetweenDispatches ==
    \A h \in Handlers :
        (trail[h].sends = 1 /\ ~HasMention(U(h)) /\ ~HasQuestion(U(h))) =>
            \E j \in SentFor(upd[h]) :
                \A i \in 1..(j - 1) :
                    sent[i].via = "reply" =>
                        sent[j].at - sent[i].at
                            >= Get(rcfg[h], "cooldown_seconds", DEFAULT_COOLDOWN_SECONDS)

\* The sender is the configured admin and the chat is private.
AdminDM(u) == u.from_id = Some(admin_user_id) /\ u.chat_type = "private"

\* h ran the admin branch for its update (it passed the dedup check).
RanAdminCommand(h) ==
    /\ pc[h] \in {"admin_mark", "admin_mark_except", "done"}
    /\ trail[h].passedDedup
    /\ AdminDM(U(h))

\* h is the newest delivery: no delivery started after it.
Newest(h) == \A g \in Handlers : g > h => pc[g] = "idle"

\* set_<field> commands whose argument fails the field's validation:
\* unparsable, out of range, empty system prompt.
InvalidSetTexts ==
    {TextSetCooldownBad, TextSetChanceBad, TextSetPromptEmpty, TextSetCooldownNeg,
     TextSetMaxTokens0}

ValidationMessages ==
    {<<"Invalid reply_chance. Expected a number between 0 and 1.">>,
     <<"Invalid cooldown. Expected a non-negative integer.">>,
     <<"Invalid max_tokens. Expected a positive integer.">>,
     <<"Invalid system_prompt. Provide the prompt text after the command.">>}

\* The admin replies dispatched for the update of h.
AdminRepliesOf(h) ==
    {i \in DOMAIN sent : sent[i].update_id = upd[h] /\ sent[i].via = "admin"}

\* C13: an admin set_<field> command whose argument fails validation makes no
\* runtime-config write, leaves the stored runtime config as it was read, and
\* (unless the dispatch fails) sends a validation message to the admin's chat.
C13_InvalidSetLeavesConfig ==
    \A h \in Handlers :
        (RanAdminCommand(h) /\ TextOf(U(h)) \in InvalidSetTexts) =>
            /\ trail[h].cfgWrites = 0
            /\ Newest(h) => runtime_config = rcfg[h]
            /\ "send" \notin trail[h].faults =>
                  /\ trail[h].adminReplies = 1
                  /\ \E i \in AdminRepliesOf(h) :
                        /\ sent[i].chat_id = U(h).chat_id
                        /\ sent[i].text \in ValidationMessages

C13_Witness ==
    \E h \in Handlers :
        /\ RanAdminCommand(h) /\ pc[h] = "done"
        /\ TextOf(U(h)) = TextSetChanceBad
        /\ trail[h].adminReplies = 1
        /\ rcfg[h] # EmptyMap
        /\ runtime_config = rcfg[h]

\* Valid set commands of the inputs: the field each sets and the value.
ValidSets ==
    <<[text |-> TextSetCooldown0, key |-> "cooldown_seconds", value |-> 0],
      [text |-> TextSetCooldownAtBot, key |-> "cooldown_seconds", value |-> 2],
      [text |-> TextSetChance0, key |-> "reply_chance", value |-> 0],
      [text |-> TextSetChanceHalf, key |-> "reply_chance", value |-> (5 * FloatScale) \div 10],
      [text |-> TextSetTemperature, key |-> "model_temperature",
       value |-> (3 * FloatScale) \div 10],
      [text |-> TextSetMaxTokens5, key |-> "max_tokens", value |-> 5],
      [text |-> TextSetSentences1, key |-> "max_reply_sentences", value |-> 1],
      [text |-> TextSetPrompt, key |-> "system_prompt",
       value |-> <<"b", "e", " ", "k", "i", "n", "d">>]>>

\* The compiled-in default of every runtime-config field.
CompiledDefaults ==
    ("reply_chance" :> DEFAULT_REPLY_CHANCE) @@
    ("cooldown_seconds" :> DEFAULT_COOLDOWN_SECONDS) @@
    ("context_messages" :> DEFAULT_CONTEXT_MESSAGES) @@
    ("history_limit" :> DEFAULT_HISTORY_LIMIT) @@
    ("max_reply_sentences" :> DEFAULT_MAX_REPLY_SENTENCES) @@
    ("model_temperature" :> DEFAULT_MODEL_TEMPERATURE) @@
    ("max_tokens" :> DEFAULT_MAX_TOKENS) @@
    ("system_prompt" :> DEFAULT_SYSTEM_PROMPT)

\* The newest admin reply dispatched for the update of h.
LastAdminReply(h) ==
    CHOOSE i \in AdminRepliesOf(h) : \A j \in AdminRepliesOf(h) : j <= i

\* h ran get_config and its reply was dispatched.
GotConfig(h) ==
    /\ RanAdminCommand(h)
    /\ TextOf(U(h)) = TextGetConfig
    /\ "send" \notin trail[h].faults

\* h1 ran the valid set command ValidSets[s] to its end with no store failure.
RanValidSet(h1, s) ==
    /\ pc[h1] = "done"
    /\ RanAdminCommand(h1)
    /\ NoStoreFault(h1)
    /\ TextOf(U(h1)) = ValidSets[s].text

\* C14: a get_config processed right after a valid set_<field> v reports the
\* field as v, and every field that was never overridden at its compiled-in
\* default.
C14_GetConfigReportsSet ==
    \A h1, h2 \in Handlers : \A s \in DOMAIN ValidSets :
        (h2 = h1 + 1 /\ RanValidSet(h1, s) /\ GotConfig(h2)) =>
            /\ trail[h2].adminReplies = 1
            /\ LET dump == sent[LastAdminReply(h2)].dump
               IN  /\ DOMAIN dump = DOMAIN CompiledDefaults
                   /\ dump[ValidSets[s].key] = ValidSets[s].value
                   /\ \A k \in DOMAIN CompiledDefaults :
                         (k # ValidSets[s].key /\ k \notin DOMAIN rcfg[h1]) =>
                             dump[k] = CompiledDefaults[k]

C14_Witness ==
    \E h1, h2 \in Handlers :
        /\ h2 = h1 + 1
        /\ RanValidSet(h1, 4)
        /\ GotConfig(h2)
        /\ rcfg[h1] = EmptyMap
        /\ sent[LastAdminReply(h2)].dump["reply_chance"] = (5 * FloatScale) \div 10
        /\ sent[LastAdminReply(h2)].dump["max_tokens"] = DEFAULT_MAX_TOKENS

\* C15: an update from the configured admin in a private chat that passed the
\* dedup check is never saved to the chat history and never reaches
\* should_reply, generation, the reply dispatch or reply storage; when its
\* handler ends it has marked the update processed, command or not, unless the
\* marker write itself failed.
C15_AdminDmOnlyMarked ==
    \A h \in Handlers :
        (upd[h] # 0 /\ trail[h].passedDedup /\ AdminDM(U(h))) =>
            /\ pc[h] \in {"dedup", "admin", "admin_mark", "admin_mark_except", "done"}
            /\ trail[h].saves = 0
            /\ U(h).message_id \notin DOMAIN messages
            /\ trail[h].should = "none"
            /\ trail[h].gen = "none"
            /\ trail[h].sends = 0
            /\ trail[h].replySaves = 0
            /\ U(h).message_id \notin DOMAIN replies
            /\ pc[h] = "done" =>
                  \/ /\ result[h] = "returned"
                     /\ trail[h].marks = 1
                     /\ upd[h] \in DOMAIN processed
                  \/ /\ result[h] = "raised"
                     /\ "mark_update_processed" \in trail[h].faults

C15_Witness ==
    \E h1, h2 \in Handlers :
        /\ pc[h1] = "done" /\ pc[h2] = "done"
        /\ trail[h1].passedDedup /\ trail[h2].passedDedup
        /\ TextOf(U(h1)) = TextHi /\ AdminDM(U(h1))
        /\ TextOf(U(h2)) = TextSetCooldown0 /\ AdminDM(U(h2))
        /\ trail[h1].marks = 1 /\ trail[h2].marks = 1
        /\ trail[h1].adminReplies = 0

\* Command-shaped messages that are not an admin DM: sent by another user (in
\* the group chat or in a private chat) or by the admin in the group chat.
CommandNotFromAdminDm(u) ==
    /\ TextOf(u) = TextSetCooldown0
    /\ ~AdminDM(u)

\* C16: the stored runtime config changes only in a step of a handler that is
\* processing an update from the configured admin in a private chat; a
\* command-shaped message from anyone else, or from the admin in another chat,
\* writes no config, gets no admin reply, and goes through the normal pipeline:
\* it is saved to the history and then the reply policy is evaluated.
C16_OnlyAdminDmWritesConfig ==
    /\ [][runtime_config' # runtime_config =>
            \E h \in Handlers : pc[h] = "admin" /\ AdminDM(U(h))]_vars
    /\ [](\A h \in Handlers :
            (upd[h] # 0 /\ trail[h].passedDedup /\ CommandNotFromAdminDm(U(h))) =>
                /\ pc[h] \notin {"admin", "admin_mark", "admin_mark_except"}
                /\ trail[h].cfgWrites = 0
                /\ trail[h].adminReplies = 0
                /\ trail[h].should # "none" => trail[h].savedBeforePolicy
                /\ (pc[h] = "done" /\ NoStoreFault(h)) =>
                      /\ trail[h].saves = 1
                      /\ U(h).message_id \in DOMAIN messages
                      /\ trail[h].should # "none")

C16_Witness ==
    \E h1, h2 \in Handlers :
        /\ pc[h1] = "done" /\ pc[h2] = "done"
        /\ upd[h1] # upd[h2]
        /\ CommandNotFromAdminDm(U(h1)) /\ CommandNotFromAdminDm(U(h2))
        /\ U(h1).from_id = Some(admin_user_id)
        /\ U(h2).chat_type = "private"
        /\ trail[h1].saves = 1 /\ trail[h2].saves = 1
        /\ trail[h1].should # "none" /\ trail[h2].should # "none"
        /\ runtime_config # EmptyMap

\* h1 ran reset_config to its end with no store failure.
ResetDone(h1) ==
    /\ pc[h1] = "done"
    /\ RanAdminCommand(h1)
    /\ NoStoreFault(h1)
    /\ TextOf(U(h1)) = TextResetConfig

DefaultThresholds ==
    [reply_chance |-> DEFAULT_REPLY_CHANCE, cooldown_seconds |-> DEFAULT_COOLDOWN_SECONDS]

\* C17: after reset_config has been processed the stored runtime config holds
\* no override; the update processed next is gated with the default
\* reply_chance and cooldown_seconds, a get_config processed next reports the
\* default of every field, and a valid set processed next leaves exactly its
\* own override.
C17_ResetRestoresDefaults ==
    \A h1 \in Handlers :
        ResetDone(h1) =>
            /\ Newest(h1) => runtime_config = EmptyMap
            /\ \A h2 \in Handlers :
                  (h2 = h1 + 1 /\ upd[h2] # 0) =>
                      /\ ~IsNone(trail[h2].thresholds) =>
                            Val(trail[h2].thresholds) = DefaultThresholds
                      /\ GotConfig(h2) =>
                            \A k \in DOMAIN CompiledDefaults :
                                sent[LastAdminReply(h2)].dump[k] = CompiledDefaults[k]
                      /\ \A s \in DOMAIN ValidSets :
                            (RanValidSet(h2, s) /\ Newest(h2)) =>
                                /\ DOMAIN runtime_config = {ValidSets[s].key}
                                /\ runtime_config[ValidSets[s].key] = ValidSets[s].value

C17_Witness ==
    \E h1, h2 \in Handlers :
        /\ ResetDone(h1)
        /\ "reply_chance" \in DOMAIN rcfg[h1]
        /\ rcfg[h1]["reply_chance"] # DEFAULT_REPLY_CHANCE
        /\ h2 = h1 + 1
        /\ pc[h2] = "done"
        /\ TextOf(U(h2)) = TextHi /\ ~AdminDM(U(h2))
        /\ trail[h2].thresholds = Some(DefaultThresholds)
        /\ trail[h2].should = "no"

\* C18 as stated: the generation request issued for a replying update carries
\* the admin's overrides of model_temperature, max_tokens, max_reply_sentences
\* and system_prompt, where there are any, not the compiled-in defaults.
C18_RequestCarriesOverrides ==
    \A h \in Handlers :
        ~IsNone(trail[h].request) =>
            LET r == Val(trail[h].request)
                rc == rcfg[h]
            IN  /\ r.temperature = Get(rc, "model_temperature", DEFAULT_MODEL_TEMPERATURE)
                /\ r.max_tokens = Get(rc, "max_tokens", DEFAULT_MAX_TOKENS)
                /\ r.max_reply_sentences
                      = Get(rc, "max_reply_sentences", DEFAULT_MAX_REPLY_SENTENCES)
                /\ "system_prompt" \in DOMAIN rc => r.system_prompt = rc["system_prompt"]


\* ---------------------------------------------------------------- C19
\* The admission condition in the words of the specification: a message
\* field, a present sender that is not flagged bot and is not the configured
\* self id, and a chat that is the ingest chat or a private chat with the
\* configured admin.
Admitted(b) ==
    /\ b.kind = "update"
    /\ b.has_message
    /\ b.has_from
    /\ ~b.u.is_bot
    /\ b.u.from_id # Some(bot_user_id)
    /\ \/ b.u.chat_id = ingest_chat_id
       \/ b.u.chat_type = "private" /\ b.u.from_id = Some(admin_user_id)

HandleUpdateCalled == webhook.n > 0 /\ webhook.result # "none"

\* C19: handle_update hands an update to publish_update, and then the queue
\* holds that update unchanged as its newest entry, exactly when the update
\* has a message, a present sender that is neither flagged bot nor the
\* configured self id, and a chat that is the ingest chat or a private chat
\* with the configured admin; in every other case it returns "ignored" and
\* the queue is as it was.  Nothing else ever reaches the queue.  (A publish
\* that raises leaves the queue as it was and is not an "ignored".)
C19_AdmissionFilter ==
    /\ \A k \in DOMAIN published : Admitted(published[k])
    /\ HandleUpdateCalled =>
         LET b == WebhookBodies[webhook.body]
         IN  IF Admitted(b)
             THEN /\ webhook.result \in {"published", "raised"}
                  /\ webhook.result = "published" =>
                       /\ Len(published) = webhook.before + 1
                       /\ published[Len(published)] = b
                  /\ webhook.result = "raised" => Len(published) = webhook.before
             ELSE /\ webhook.result = "ignored"
                  /\ Len(published) = webhook.before

\* An admin's private message outside the ingest chat was published after a
\* message of a foreign chat was ignored.
C19_Witness ==
    /\ webhook.result = "published"
    /\ AdminDM(WebhookBodies[webhook.body].u)
    /\ WebhookBodies[webhook.body].u.chat_id # ingest_chat_id
    /\ Len(published) = 1
    /\ webhook.n = 2

\* ---------------------------------------------------------------- C20
\* C20: a webhook request whose secret header differs from the configured
\* secret is answered 401, never reaches handle_update and publishes nothing,
\* whatever its body is.
C20_SecretMismatchRejected ==
    (webhook.n > 0 /\ webhook.secret # webhook_secret) =>
        /\ webhook.status = 401
        /\ webhook.result = "none"
        /\ Len(published) = webhook.before

\* A malformed body arrived with a wrong secret and was answered 401.
C20_Witness ==
    /\ webhook.n > 0
    /\ webhook.secret = "wrong"
    /\ WebhookBodies[webhook.body].kind = "malformed"
    /\ webhook.status = 401


\* ---------------------------------------------------------------- C21
\* C21: a webhook request is answered 200 "accepted" only when its update is
\* on the queue, the publish having been confirmed before the answer; a
\* publish that fails or times out is answered 500 and leaves no success
\* response for that request.
C21_AcceptedOnlyAfterPublish ==
    webhook.n > 0 =>
        /\ (webhook.status = 200 /\ webhook.result # "ignored") =>
              /\ webhook.result = "published"
              /\ Len(published) = webhook.before + 1
              /\ published[Len(published)] = WebhookBodies[webhook.body]
        /\ webhook.result = "raised" =>
              /\ webhook.status = 500
              /\ Admitted(WebhookBodies[webhook.body])
              /\ Len(published) = webhook.before

\* A publish of an admitted update failed and was answered 500, after an
\* earlier request had been accepted.
C21_Witness ==
    /\ webhook.n = 2
    /\ webhook.result = "raised"
    /\ webhook.status = 500
    /\ Len(published) = 1


\* ---------------------------------------------------------------- C22
\* The delivery carries no identity the endpoint accepts: the bearer token
\* is missing or invalid, or no audience is configured.
Unauthenticated(req) == req.auth # "valid" \/ push.audience = ""

\* C22: with the auth-skip flag unset, a queue delivery with a missing or
\* invalid bearer token, or arriving while no audience is configured, is
\* answered with an error before its envelope is decoded: the step that
\* handles it touches neither the store, nor the dispatched replies, nor any
\* handler, and no run of process_update was ever started by such a delivery.
C22_UnauthenticatedRejected ==
    /\ [](~push.skip_auth =>
            /\ (push.n > 0 /\ Unauthenticated(push.req)) =>
                  /\ push.status \in {400, 500}
                  /\ push.stage \in {"body", "auth"}
            /\ \A h \in Handlers :
                  pc[h] # "idle" => ~Unauthenticated(push.started[h]))
    /\ [][(push'.n # push.n /\ ~push.skip_auth /\ Unauthenticated(push'.req)) =>
            UNCHANGED <<store, sent, storeFailures, locals>>]_vars

\* After an authenticated delivery was processed and marked, a delivery of a
\* well-formed envelope with an invalid token was rejected.
C22_Witness ==
    /\ ~push.skip_auth
    /\ push.req.auth = "invalid"
    /\ push.req.data = "update"
    /\ push.stage = "auth"
    /\ push.status = 500
    /\ \E h \in Handlers : pc[h] = "done" /\ upd[h] \in DOMAIN processed


\* ---------------------------------------------------------------- C23
\* C23: a queue delivery that passes authentication and whose envelope has
\* no message.data, or an empty one, is answered 400 and starts no run of
\* process_update.
C23_MalformedEnvelope400 ==
    (push.n > 0 /\ push.stage = "envelope") =>
        /\ push.req.data \in {"missing", "empty"}
        /\ push.status = 400
        /\ \A h \in Handlers : push.started[h].data = "update" \/ pc[h] = "idle"


\* ---------------------------------------------------------------- C24
\* The run h of the admin branch has ended and the dispatch of its admin
\* reply failed.
AdminDispatchFailed(h) ==
    /\ pc[h] = "done"
    /\ trail[h].passedDedup
    /\ AdminDM(U(h))
    /\ "send" \in trail[h].faults

\* C24 as stated: when the dispatch of the admin reply fails, the failure
\* leaves process_update (the endpoint answers 500) and the update is marked
\* processed.
C24_AdminDispatchFailurePropagates ==
    \A h \in Handlers :
        AdminDispatchFailed(h) =>
            /\ result[h] = "raised"
            /\ PushResponse(h) = 500
            /\ upd[h] \in DOMAIN processed

\* C24 amended: when the dispatch of the admin reply fails, process_update
\* catches the failure, marks the update processed and returns normally (the
\* endpoint answers 200), with no admin reply sent; only a storage error of
\* the marker write itself leaves process_update.
C24_AdminDispatchFailureCaught ==
    \A h \in Handlers :
        AdminDispatchFailed(h) =>
            /\ trail[h].adminReplies = 0
            /\ IF "mark_update_processed" \in trail[h].faults
               THEN result[h] = "raised" /\ PushResponse(h) = 500
               ELSE /\ result[h] = "returned"
                    /\ PushResponse(h) = 200
                    /\ trail[h].marks = 1
                    /\ upd[h] \in DOMAIN processed

\* The dispatch of the validation message for "/set_cooldown abc" failed; the
\* run returned normally and the update is marked.
C24_Witness ==
    \E h \in Handlers :
        /\ AdminDispatchFailed(h)
        /\ U(h).text = Some(TextSetCooldownBad)
        /\ result[h] = "returned"
        /\ upd[h] \in DOMAIN processed


\* ---------------------------------------------------------------- C25
\* The attempts the call made that failed otherwise than with a 429.
OtherFailures == {a \in 1..call.g.attempts : call.outs[a].kind \in {"http_error", "conn_error"}}

\* C25 as stated: generate_reply makes a further attempt only after a 429;
\* after any other failed attempt (non-429 HTTP error, connection error,
\* timeout) it raises at once.
C25_RetriesOnlyOn429 ==
    call.n > 0 =>
        \A a \in OtherFailures : call.g.raised /\ call.g.attempts = a

\* C25 amended: generate_reply makes a further attempt, while attempts remain,
\* after a 429 and after a connection error or timeout; only a non-429 HTTP
\* error raises, at once; when every attempt failed with a 429 or a
\* connection error it returns empty text without raising.
C25_RetriesOn429AndConnectionError ==
    call.n > 0 =>
        LET g == call.g
            outs == call.outs
        IN  /\ g.attempts \in 1..DEFAULT_OPENAI_MAX_RETRIES
            /\ \A a \in 1..(g.attempts - 1) : outs[a].kind \in {"rate_limited", "conn_error"}
            /\ g.raised <=> outs[g.attempts].kind = "http_error"
            /\ outs[g.attempts].kind \in {"rate_limited", "conn_error"} =>
                  /\ g.attempts = DEFAULT_OPENAI_MAX_RETRIES
                  /\ ~g.raised
                  /\ g.text = <<>>
            /\ Len(g.waits) = g.attempts - 1
            /\ \A a \in DOMAIN g.waits : g.waits[a] = DEFAULT_OPENAI_BACKOFF_SECONDS * a

\* The first attempt ended in a connection error, the second returned text.
C25_Witness ==
    /\ call.n > 0
    /\ call.outs[1].kind = "conn_error"
    /\ call.outs[2].kind = "content"
    /\ call.g.attempts = 2
    /\ ~call.g.raised
    /\ call.g.text # <<>>


\* ---------------------------------------------------------------- C26
\* C26: the stored message history only grows: no step removes a stored
\* message, and no step changes the content of a stored message, not even the
\* processing of a distinct update that carries the same message_id.
C26_HistoryAppendOnly ==
    [][\A k \in DOMAIN messages :
          k \in DOMAIN messages' /\ messages'[k] = messages[k]]_vars


\* ---------------------------------------------------------------- C27
\* The reply text R was dispatched to the reply chat on behalf of update u.
Dispatched(u, R) ==
    \E i \in SentFor(u) : sent[i].chat_id = reply_chat_id /\ sent[i].text = R

\* C27: a reply is stored only by a run whose dispatch of that reply has
\* already succeeded: the store of replies changes only in the step after a
\* successful send, by the reply just sent; a run whose dispatch failed
\* stores no reply; a run whose generated text is empty neither dispatches
\* nor stores a reply.
C27_StoredReplyFollowsDispatch ==
    /\ [][replies' # replies =>
            \E h \in Handlers :
                /\ pc[h] = "save_reply"
                /\ trail[h].sends = 1
                /\ reply[h] # <<>>
                /\ Dispatched(upd[h], reply[h])
                /\ replies' = Put(replies, U(h).message_id,
                                  [reply_text |-> reply[h], date |-> now])]_vars
    /\ [](\A h \in Handlers :
            /\ trail[h].replySaves <= trail[h].sends
            /\ "send" \in trail[h].faults => trail[h].replySaves = 0
            /\ (trail[h].gen # "none" /\ reply[h] = <<>>) =>
                  /\ trail[h].sends = 0
                  /\ trail[h].replySaves = 0)

\* One run stored its reply after sending it; in the next run the dispatch
\* failed and no reply is stored for its message.
C27_Witness ==
    \E h1, h2 \in Handlers :
        /\ pc[h1] = "done" /\ trail[h1].replySaves = 1
        /\ U(h1).message_id \in DOMAIN replies
        /\ pc[h2] = "done" /\ "send" \in trail[h2].faults
        /\ ~AdminDM(U(h2))
        /\ reply[h2] # <<>>
        /\ U(h2).message_id \notin DOMAIN replies


\* ---------------------------------------------------------------- C28
\* The stored messages of which fewer than n stored messages are more recent.
NewestStored(n) ==
    {d \in {messages[k] : k \in DOMAIN messages} :
        Cardinality({e \in {messages[k] : k \in DOMAIN messages} : e.date > d.date}) < n}

Smaller(a, b) == IF a < b THEN a ELSE b

\* The run h has just built its generation context: the store is as the
\* fetch saw it.
ContextBuilt(h) == pc[h] = "generate" /\ ~IsNone(trail[h].context)

\* C28: when replying, the generation context holds exactly the
\* context_messages newest of the history_limit newest stored messages of the
\* ingest chat, so at most min(context_messages, history_limit) of them, in
\* order from oldest to newest; the style profile is built from the texts of
\* all history_limit newest stored messages.
C28_ContextWindow ==
    \A h \in Handlers :
        ContextBuilt(h) =>
            LET history_limit == Get(rcfg[h], "history_limit", DEFAULT_HISTORY_LIMIT)
                context_messages == Get(rcfg[h], "context_messages", DEFAULT_CONTEXT_MESSAGES)
                recent == Val(trail[h].context).recent_messages
                style_profile == Val(trail[h].context).style_profile
                fetched == NewestStored(history_limit)
                texts == {Val(d.text) : d \in {e \in fetched : e.text \notin {NoneVal, Some(<<>>)}}}
            IN  /\ {recent[i] : i \in DOMAIN recent}
                      = NewestStored(Smaller(context_messages, history_limit))
                /\ Len(recent) <= Smaller(context_messages, history_limit)
                /\ Len(recent) = Smaller(Smaller(context_messages, history_limit),
                                         Cardinality(DOMAIN messages))
                /\ \A i, j \in DOMAIN recent : i < j => recent[i].date < recent[j].date
                /\ {style_profile.texts[i] : i \in DOMAIN style_profile.texts} = texts
                /\ Len(style_profile.texts) =
                      Cardinality({e \in fetched : e.text \notin {NoneVal, Some(<<>>)}})

\* With history_limit 3 and context_messages 2 and five messages stored, the
\* context holds the two newest and the style profile reads three.
C28_Witness ==
    \E h \in Handlers :
        /\ ContextBuilt(h)
        /\ Get(rcfg[h], "history_limit", DEFAULT_HISTORY_LIMIT) = 3
        /\ Get(rcfg[h], "context_messages", DEFAULT_CONTEXT_MESSAGES) = 2
        /\ Cardinality(DOMAIN messages) = 5
        /\ Len(Val(trail[h].context).recent_messages) = 2
        /\ Len(Val(trail[h].context).style_profile.texts) = 3


\* ---------------------------------------------------------------- C29
\* A message on the probabilistic path: sender not a bot, with an id, not the
\* bot itself; text without mention and without '?'.
Plain(u) == EligibleSender(u) /\ ~HasMention(u) /\ ~HasQuestion(u)

\* C29: for a message from a non-bot, non-self sender with no mention and no
\* '?', should_reply is false if a last reply exists and less than
\* cooldown_seconds have passed since it; otherwise it is true exactly when
\* the draw is strictly below reply_chance: never with reply_chance 0, always
\* with reply_chance 1, and an elapsed time equal to cooldown_seconds does not
\* suppress the reply.  The function is examined, for every draw, chance and
\* cooldown, in the states where process_update is about to call it.
C29_CooldownThenDraw ==
    \A h \in Handlers :
        (upd[h] # 0 /\ Plain(U(h))) =>
            /\ pc[h] = "policy" =>
               \A draw \in Draws, chance \in Chances, cooldown \in Cooldowns :
                 LET decision == _should_reply(U(h), get_last_reply_time, now, draw,
                                               chance, cooldown)
                     suppressed == /\ DOMAIN replies # {}
                                   /\ \E m \in DOMAIN replies :
                                         /\ \A k \in DOMAIN replies :
                                               replies[k].date <= replies[m].date
                                         /\ now - replies[m].date < cooldown
                 IN  /\ suppressed => ~decision
                     /\ ~suppressed => (decision <=> draw < chance)
                     /\ chance = 0 => ~decision
                     /\ (~suppressed /\ chance = FloatScale) => decision
                     /\ (DOMAIN replies # {} /\ now - Val(get_last_reply_time) = cooldown)
                           => (decision <=> draw < chance)
            /\ trail[h].coolingDown => trail[h].should # "yes"
            /\ (trail[h].should # "none" /\ Val(trail[h].thresholds).reply_chance = 0)
                  => trail[h].should = "no"
            /\ ( /\ trail[h].should # "none" /\ ~trail[h].coolingDown
                 /\ Val(trail[h].thresholds).reply_chance = FloatScale )
                  => trail[h].should = "yes"

\* A plain message was answered exactly cooldown_seconds (1) after the last
\* stored reply.
C29_Witness ==
    \E h \in Handlers :
        /\ pc[h] = "history"
        /\ Plain(U(h))
        /\ trail[h].should = "yes"
        /\ Val(trail[h].thresholds).cooldown_seconds = 1
        /\ DOMAIN replies # {}
        /\ now - Val(get_last_reply_time) = 1


\* ---------------------------------------------------------------- C30
\* h1 ran a valid "/set_reply_chance 0" to its end with no store failure.
RanSetChance0(h1) ==
    /\ pc[h1] = "done"
    /\ RanAdminCommand(h1)
    /\ NoStoreFault(h1)
    /\ TextOf(U(h1)) = TextSetChance0

\* No delivery between h1 and h2 wrote the runtime config.
NoConfigWriteBetween(h1, h2) ==
    \A g \in Handlers : (h1 < g /\ g < h2) => trail[g].cfgWrites = 0

\* C30: the reply_chance and cooldown_seconds that gate an update are the
\* overrides the runtime config holds when the update is processed, or the
\* compiled-in defaults for absent keys; once a valid "/set_reply_chance 0"
\* has been processed, an update processed later, with no config write in
\* between, is gated with reply_chance 0 and a plain message (no mention, no
\* '?') is not answered.
C30_ThresholdsFromRuntimeConfig ==
    \A h \in Handlers :
        /\ pc[h] \in {"dedup", "save_message", "policy"} => rcfg[h] = runtime_config
        /\ ~IsNone(trail[h].thresholds) =>
              /\ Val(trail[h].thresholds).reply_chance =
                    (IF "reply_chance" \in DOMAIN rcfg[h] THEN rcfg[h]["reply_chance"]
                     ELSE DEFAULT_REPLY_CHANCE)
              /\ Val(trail[h].thresholds).cooldown_seconds =
                    (IF "cooldown_seconds" \in DOMAIN rcfg[h] THEN rcfg[h]["cooldown_seconds"]
                     ELSE DEFAULT_COOLDOWN_SECONDS)
        /\ \A h1 \in Handlers :
              (h1 < h /\ RanSetChance0(h1) /\ NoConfigWriteBetween(h1, h) /\ upd[h] # 0) =>
                  /\ pc[h] \in {"dedup", "save_message", "policy"} =>
                        runtime_config["reply_chance"] = 0
                  /\ ~IsNone(trail[h].thresholds) =>
                        Val(trail[h].thresholds).reply_chance = 0
                  /\ (Plain(U(h)) /\ ~AdminDM(U(h))) =>
                        /\ trail[h].should # "yes"
                        /\ trail[h].sends = 0

\* The stored config answered every message (reply_chance 1); after
\* "/set_reply_chance 0" the plain message "hi" was gated with reply_chance 0
\* and not answered.
C30_Witness ==
    \E h1, h2 \in Handlers :
        /\ h2 = h1 + 1
        /\ RanSetChance0(h1)
        /\ Get(rcfg[h1], "reply_chance", DEFAULT_REPLY_CHANCE) = FloatScale
        /\ pc[h2] = "done"
        /\ TextOf(U(h2)) = TextHi /\ ~AdminDM(U(h2))
        /\ trail[h2].should = "no"
        /\ Val(trail[h2].thresholds).reply_chance = 0


\* ---------------------------------------------------------------- C31
\* The attempts of the call that were answered 429.
RateLimited == {a \in 1..call.g.attempts : call.outs[a].kind = "rate_limited"}

\* C31: generate_reply ends after at most DEFAULT_OPENAI_MAX_RETRIES
\* attempts; every rate-limited attempt but the last possible one is followed
\* by a wait of DEFAULT_OPENAI_BACKOFF_SECONDS times its number, no wait
\* follows the last possible attempt, and when every attempt was rate-limited
\* the call returns empty text without raising.
C31_BoundedLinearBackoff ==
    call.n > 0 =>
        LET g == call.g
        IN  /\ g.attempts >= 1
            /\ g.attempts <= DEFAULT_OPENAI_MAX_RETRIES
            /\ \A a \in RateLimited :
                  IF a < DEFAULT_OPENAI_MAX_RETRIES
                  THEN /\ a \in DOMAIN g.waits
                       /\ g.waits[a] = DEFAULT_OPENAI_BACKOFF_SECONDS * a
                       /\ g.attempts > a
                  ELSE a \notin DOMAIN g.waits
            /\ DEFAULT_OPENAI_MAX_RETRIES \notin DOMAIN g.waits
            /\ RateLimited = 1..DEFAULT_OPENAI_MAX_RETRIES =>
                  /\ ~g.raised
                  /\ g.text = <<>>
                  /\ g.attempts = DEFAULT_OPENAI_MAX_RETRIES

\* Every attempt was answered 429: three attempts, waits of 1 and 2 seconds,
\* empty text.
C31_Witness ==
    /\ call.n > 0
    /\ RateLimited = 1..DEFAULT_OPENAI_MAX_RETRIES
    /\ call.g.waits = <<DEFAULT_OPENAI_BACKOFF_SECONDS, 2 * DEFAULT_OPENAI_BACKOFF_SECONDS>>
    /\ call.g.text = <<>>

\* C32: in every reachable state, every key present in the stored runtime
\* config is within its declared range: reply_chance in [0, 1],
\* cooldown_seconds >= 0, context_messages > 0, history_limit > 0,
\* max_reply_sentences >= 0, model_temperature in [0, 2], max_tokens > 0 and
\* system_prompt non-empty; no sequence of admin commands stores anything else.
InRange(key, value) ==
    CASE key = "reply_chance" -> value \in 0..(1 * FloatScale)
      [] key = "cooldown_seconds" -> value \in Nat
      [] key = "context_messages" -> value \in Nat \ {0}
      [] key = "history_limit" -> value \in Nat \ {0}
      [] key = "max_reply_sentences" -> value \in Nat
      [] key = "model_temperature" -> value \in 0..(2 * FloatScale)
      [] key = "max_tokens" -> value \in Nat \ {0}
      [] key = "system_prompt" -> value # <<>>
      [] OTHER -> FALSE

C32_StoredConfigInRange ==
    \A key \in DOMAIN runtime_config : InRange(key, runtime_config[key])

\* Out-of-range set commands have been answered, one of them after an
\* accepted one, and the stored value is the accepted one.
C32_Witness ==
    \E h1, h2 \in Handlers :
        /\ h2 = h1 + 1
        /\ upd[h1] # 0 /\ Updates[upd[h1]].text = Some(TextSetChanceHalf)
        /\ upd[h2] # 0 /\ Updates[upd[h2]].text = Some(TextSetChanceBad)
        /\ pc[h2] = "done"
        /\ trail[h2].adminReplies = 1
        /\ trail[h2].cfgWrites = 0
        /\ "reply_chance" \in DOMAIN runtime_config
        /\ runtime_config["reply_chance"] = FloatScale \div 2


\* ---------------------------------------------------------------- C33
\* C33: the queue push endpoint answers 200 for a delivery only if the
\* delivered update's processed marker exists when it answers (the update was
\* already processed, or this delivery marked it); whenever process_update
\* raises, the endpoint answers 500, so that the queue redelivers.
C33_OkOnlyWhenMarked ==
    \A h \in Handlers :
        /\ PushResponse(h) = 200 => upd[h] \in DOMAIN processed
        /\ result[h] = "raised" => PushResponse(h) = 500

\* A delivery was answered 500 after a store fault, and its redelivery was
\* answered 200 with the marker written.
C33_Witness ==
    \E h1, h2 \in Handlers :
        /\ h2 = h1 + 1
        /\ upd[h1] = upd[h2]
        /\ PushResponse(h1) = 500
        /\ PushResponse(h2) = 200
        /\ trail[h2].marks = 1
        /\ upd[h2] \in DOMAIN processed


\* ---------------------------------------------------------------- C37
\* C37: the set of processed markers only grows: no step removes a marker, so
\* an update that is_update_processed reports as processed is reported so in
\* every later state; and a step in which a handler marks an update that is
\* already marked leaves the set of marked update ids unchanged.
C37_MarkersOnlyGrow ==
    [][ /\ \A u \in DOMAIN processed : is_update_processed(u)'
        /\ \A h \in Handlers :
              (trail'[h].marks > trail[h].marks /\ is_update_processed(upd[h]))
                  => DOMAIN processed' = DOMAIN processed ]_vars

\* Two overlapping handlers of the same update have both marked it, and the
\* collection holds that one marker.
C37_Witness ==
    /\ \E h1, h2 \in Handlers :
          /\ h1 # h2
          /\ upd[h1] = upd[h2]
          /\ trail[h1].marks = 1
          /\ trail[h2].marks = 1
          /\ is_update_processed(upd[h1])
    /\ Cardinality(DOMAIN processed) = 1


\* ---------------------------------------------------------------- C39
\* The words of the texts a history carries, as _build_style_profile counts
\* them.
HistoryWords(history) ==
    Words(Lower(JoinSpace(_build_style_profile(history).texts)))

\* C39: _build_style_profile returns the zero profile when no message of the
\* input has a non-empty text; otherwise its emoji_ratio lies in [0, 1], its
\* common_words holds at most 5 pairwise distinct lower-cased tokens of the
\* texts, none less frequent than a token it omits, and its topics is empty.
\* The call reads and writes no shared state: the step leaves the store, the
\* dispatched replies and every handler as they were.
C39_StyleProfile ==
    /\ [](style.n > 0 =>
            LET p == style.profile
                words == HistoryWords(style.history)
                tokens == {words[i] : i \in 1..Len(words)}
                common == {p.common_words[i] : i \in 1..Len(p.common_words)}
            IN  IF \A i \in 1..Len(style.history) :
                       style.history[i].text \in {NoneVal, Some(<<>>)}
                THEN p = [average_length |-> <<0, 1>>, emoji_ratio |-> <<0, 1>>,
                          common_words |-> <<>>, topics |-> <<>>]
                ELSE /\ p.emoji_ratio[2] > 0
                     /\ 0 <= p.emoji_ratio[1] /\ p.emoji_ratio[1] <= p.emoji_ratio[2]
                     /\ Len(p.common_words) <= 5
                     /\ Cardinality(common) = Len(p.common_words)
                     /\ common \subseteq tokens
                     /\ \A w \in common : Lower(w) = w
                     /\ \A w \in common : \A o \in tokens \ common :
                            CountOf(words, w) >= CountOf(words, o)
                     /\ p.topics = <<>>)
    /\ [][style' # style => UNCHANGED <<store, sent, locals, intake>>]_vars

\* A profile built from texts with upper-case letters, an emoji and more than
\* five distinct words, one of them more frequent than the others.
C39_Witness ==
    /\ style.n > 0
    /\ Len(style.profile.common_words) = 5
    /\ style.profile.common_words[1] = <<"h", "i">>
    /\ Len(HistoryWords(style.history)) > 7
    /\ style.profile.emoji_ratio[1] > 0


\* ---------------------------------------------------------------- C40
\* The recent messages of the context that carry a non-empty text.
WithText(recent_messages) ==
    SelectSeq(recent_messages, LAMBDA m : m.text \notin {NoneVal, Some(<<>>)})

\* C40: the message list built for the generation capability starts with
\* exactly one system turn, followed by one user turn per recent message that
\* has a non-empty text, in the order of the context (oldest to newest);
\* messages with empty or missing text are skipped.
C40_SystemThenUserTurns ==
    style.messages # <<>> =>
        LET kept == WithText(style.history)
        IN  /\ style.messages[1].role = "system"
            /\ Len(style.messages) = 1 + Len(kept)
            /\ \A i \in 1..Len(kept) :
                  /\ style.messages[i + 1].role = "user"
                  /\ style.messages[i + 1].content = Val(kept[i].text)

\* A context of three messages, the middle one without text and the other two
\* with different texts, was turned into a system turn and two user turns.
C40_Witness ==
    /\ Len(style.messages) = 3
    /\ Len(style.history) = 3
    /\ style.history[2].text = NoneVal
    /\ style.messages[2].content = TextSlang
    /\ style.messages[3].content = TextShout


\* ---------------------------------------------------------------- C36
\* The published update from which the stored message d was written.
Origin(d, b) ==
    /\ d = [message_id |-> b.u.message_id, text |-> b.u.text, date |-> b.u.date,
            user_id |-> b.u.from_id]

\* C36: in the composed pipeline, every message stored in the chat history
\* was sent in the ingest chat by a present, non-bot sender other than the bot
\* itself; messages of bots, of the bot itself, of foreign chats and admin
\* DMs never appear in the history.
C36_HistoryFromIngestChat ==
    \A m \in DOMAIN messages :
        \E i \in DOMAIN published :
            LET b == published[i]
            IN  /\ Origin(messages[m], b)
                /\ b.u.chat_id = ingest_chat_id
                /\ b.has_from
                /\ ~b.u.is_bot
                /\ b.u.from_id # Some(bot_user_id)
                /\ ~(b.u.chat_type = "private" /\ b.u.from_id = Some(admin_user_id))

\* An admin DM and a message the admin sent in the ingest chat were both
\* published and handled to the end: the second is stored, the first is not.
C36_Witness ==
    /\ Len(published) = 2
    /\ published[1].u = Updates[8]
    /\ published[2].u = Updates[20]
    /\ \A h \in Handlers : pc[h] = "done" /\ result[h] = "returned"
    /\ DOMAIN messages = {Updates[20].message_id}


OverrideOf(u) ==
    LET e == _handle_admin_command(Updates[u], EmptyMap)
    IN  IF _is_admin_dm(Updates[u]) /\ e.write = "save" THEN e.config ELSE EmptyMap

\* Handler h ran its admin command to the end and wrote the runtime config.
WroteConfig(h) ==
    /\ pc[h] = "done"
    /\ result[h] = "returned"
    /\ trail[h].cfgWrites = 1

\* C35: after two valid set commands for two different fields have both been
\* processed, in any interleaving of their handlers, the stored runtime
\* config holds both overrides; and a reset_config that completed is not
\* undone by a set command running at the same time: once both are processed
\* the store holds at most the override of the set command, no key of the
\* config from before the reset.
C35_NoLostConfigUpdate ==
    \A h1, h2 \in Handlers :
        (h1 # h2 /\ WroteConfig(h1) /\ WroteConfig(h2)) =>
            LET o1 == OverrideOf(upd[h1])
                o2 == OverrideOf(upd[h2])
            IN  /\ (o1 # EmptyMap /\ o2 # EmptyMap /\ DOMAIN o1 # DOMAIN o2) =>
                      \A k \in DOMAIN o1 :
                          k \in DOMAIN runtime_config /\ runtime_config[k] = o1[k]
                /\ (Updates[upd[h1]].text = Some(TextResetConfig) /\ o2 # EmptyMap) =>
                      DOMAIN runtime_config \subseteq DOMAIN o2


====
